---- MODULE Spec2Model ----
(***************************************************************************)
(* State-machine model of the ClickHouse event sink:                       *)
(*   - the course sink (CoursePublishedSink): staleness policy, dump with  *)
(*     its three inserts, target enumeration;                              *)
(*   - the two management commands (dump_courses_to_clickhouse and         *)
(*     dump_data_to_clickhouse) with their option validation and loops;    *)
(*   - the model sink's target enumeration (ModelBaseSink);                *)
(*   - serialize_course: the block rows and the relationship rows of a     *)
(*     course, and the section / subsection / unit walk;                   *)
(*   - ModelBaseSink.dump with its serializer and its nested sinks;        *)
(*   - the transport, BaseSink._send_clickhouse_request.                   *)
(* The remote store is modelled as three tables of rows; the celery queue  *)
(* as a sequence of course keys consumed by one worker.                    *)
(***************************************************************************)
EXTENDS Integers, Sequences, FiniteSets, TLC

(* ------------------------------ bounds -------------------------------- *)
\* last tick the clock reaches
MaxTick == 3
\* ticks per second: a scaled-down stand-in for the 10^6 microseconds
UsecPerSec == 2
\* number of course dumps (fresh dump ids) a behaviour may start
MaxDumps == 1
\* capacity of the task queue
MaxQueue == 1
\* number of rows in the generic model's queryset
NumObjects == 3
\* largest batch_size option tried
MaxBatch == 2
\* largest limit option tried
MaxLimit == 2
\* longest list of blocks the module store returns
MaxBlocks == 2
\* longest course of the coordinate walk
MaxTreeBlocks == 4
\* largest written_rows a response acknowledges and largest expected count
MaxWritten == 3
\* number of transport calls a behaviour makes
MaxCalls == 2
\* most records one ModelBaseSink.dump call is given
MaxRows == 2
\* most nested sinks of a model sink
MaxNested == 2
\* most users one retirement call is given
MaxUsers == 3
\* most times the retirement is run for the same users
MaxRuns == 2
\* most task runs that are recorded
MaxTasks == 2
\* most operations called on one model sink
MaxOps == 2

(* ----------------------------- universes ------------------------------ *)
Courses == {"c1", "c2"}
\* modulestore.get_course_summaries() order
CourseSummaries == <<"c1", "c2">>

\* Python's None for optional values; Some(x) wraps a present value
None == <<>>
Some(x) == <<x>>
Val(o) == o[1]

(* ------------------------- timestamps as text ------------------------- *)
\* A datetime is a tick count.  Its text is what str(datetime) prints:
\* "YYYY-MM-DD HH:MM:SS.ffffff+00:00", the fraction being omitted when the
\* microsecond field is zero.
Str(dt) ==
    [sec |-> dt \div UsecPerSec, usec |-> dt % UsecPerSec,
     hasfrac |-> (dt % UsecPerSec) # 0]

\* datetime.fromisoformat accepts the text with or without the fraction
fromisoformat(text) == text.sec * UsecPerSec + text.usec

\* datetime.strptime(text, "%Y-%m-%d %H:%M:%S.%f+00:00"): the format demands
\* the fraction; a text without it raises ValueError (None here)
strptime(text) ==
    IF text.hasfrac THEN Some(text.sec * UsecPerSec + text.usec) ELSE None

(* ------------------------------- state -------------------------------- *)
VARIABLES
    now,               \* the wall clock (timezone.now()), in ticks
    modified,          \* CourseOverview.modified of each course, or None
    ch_overviews,      \* remote table course_overviews
    ch_blocks,         \* remote table course_blocks
    ch_relationships,  \* remote table course_relationships
    queue,             \* celery queue of dump_course_to_clickhouse tasks
    task,              \* the worker's current dump_course_to_clickhouse call
    next_dump_id,      \* next fresh value of uuid.uuid4()
    dumps,             \* history of every CoursePublishedSink.dump call
    failed_dump,       \* per course: the insert at which its last dump failed
    cmd,               \* the management command being run
    yields,            \* what the target generator has yielded in this run
    lookups,           \* keys the staleness policy was invoked for in this run
    last_check,        \* the last should_dump_course call and its outcome
    sink_dumps,        \* batches handed to sink.dump(..., many=True) in this run
    enabled,           \* CourseOverviewSink.is_enabled(): the setting / waffle flag
    flat,              \* one CoursePublishedSink.serialize_course call
    tree,              \* the walk that stamps section / subsection / unit
    sink,              \* one ModelBaseSink.dump call
    http,              \* the calls of BaseSink._send_clickhouse_request
    retire,            \* the calls of UserRetirementSink.send_item
    pii,               \* per remote PII table: the user ids it holds rows of
    celery,            \* the celery tasks of tasks.py that have run
    resolve,           \* a model sink and the operations called on it
    conn,              \* one BaseSink.__init__ call
    workers,           \* two workers checking and dumping the same course
    inserts            \* the insert requests built by the sinks

vars == <<now, modified, ch_overviews, ch_blocks, ch_relationships, queue, task,
          next_dump_id, dumps, failed_dump, cmd, yields, lookups, last_check,
          sink_dumps, enabled, flat, tree, sink, http, retire, pii, celery,
          resolve, conn, workers, inserts>>

\* the state of the retirement sink, of the tasks, of model resolution, of
\* the connection settings, of the two workers and of the insert requests
aux_vars == <<retire, pii, celery, resolve, conn, workers, inserts>>

\* the state of the serializers, of the model sink and of the transport
ser_vars == <<flat, tree, sink, http, aux_vars>>

world_vars == <<now, modified, ch_overviews, ch_blocks, ch_relationships, queue,
                task, next_dump_id, dumps, failed_dump, enabled>>

(* ------------------- CoursePublishedSink: staleness ------------------- *)
\* Body of the response to
\*   SELECT max(time_last_dumped) FROM course_blocks WHERE course_key = '...'
\* None stands for the empty body.
last_dump_response(course_key) ==
    LET rows == {r \in ch_blocks : r.course_key = course_key}
    IN  IF rows = {} THEN None
        ELSE Some((CHOOSE r \in rows : \A q \in rows :
                     fromisoformat(q.time_last_dumped)
                        <= fromisoformat(r.time_last_dumped)).time_last_dumped)

get_course_last_dump_time(course_key) ==
    LET body == last_dump_response(course_key)
    IN  IF body # None THEN Some(Str(fromisoformat(Val(body)))) ELSE None

get_course_last_published(course_key) ==
    IF modified[course_key] # None
    THEN Some(Str(Val(modified[course_key]))) ELSE None

\* The outcome of one should_dump_course call:
\*   raised          an exception (ValueError from strptime) left the call
\*   needs_dump      first component of the returned pair
\*   reason          second component (its message)
\*   last_dump       what get_course_last_dump_time returned
\*   last_published  what get_course_last_published returned, when called
\*   read_published  whether get_course_last_published was called
\*   compared        whether the timestamp comparison was evaluated
Outcome(raised, needs_dump, reason, dumped, published, read, compared) ==
    [raised |-> raised, needs_dump |-> needs_dump, reason |-> reason,
     last_dump |-> dumped, last_published |-> published,
     read_published |-> read, compared |-> compared]

\* The comparison at the end of should_dump_course: both texts are parsed
\* with strptime, the course needs a dump when it was published after the
\* last dump.
compare_timestamps(course_last_dump_time, course_last_published_date) ==
    LET dumped    == strptime(Val(course_last_dump_time))
        published == strptime(Val(course_last_published_date))
    IN  IF dumped = None \/ published = None
        THEN Outcome(TRUE, FALSE, "ValueError", course_last_dump_time,
                     course_last_published_date, TRUE, FALSE)
        ELSE IF Val(dumped) < Val(published)
        THEN Outcome(FALSE, TRUE,
                     "Course has been published since last dump time",
                     course_last_dump_time, course_last_published_date,
                     TRUE, TRUE)
        ELSE Outcome(FALSE, FALSE,
                     "Course has NOT been published since last dump time",
                     course_last_dump_time, course_last_published_date,
                     TRUE, TRUE)

\* Mutant: the publish date is read, and its absence reported, before the
\* remote dump time is looked at.
should_dump_course_published_first(course_key) ==
    LET course_last_dump_time == get_course_last_dump_time(course_key)
        course_last_published_date == get_course_last_published(course_key)
    IN  IF course_last_published_date = None
        THEN Outcome(FALSE, FALSE, "No last modified date in CourseOverview",
                     course_last_dump_time, None, TRUE, FALSE)
        ELSE IF course_last_dump_time = None
        THEN Outcome(FALSE, TRUE, "Course is not present in ClickHouse",
                     None, course_last_published_date, TRUE, FALSE)
        ELSE compare_timestamps(course_last_dump_time,
                                course_last_published_date)

\* Mutant: the check for a missing publish date is left out, so the missing
\* date reaches strptime (TypeError).
should_dump_course_no_null_check(course_key) ==
    LET course_last_dump_time == get_course_last_dump_time(course_key)
        course_last_published_date == get_course_last_published(course_key)
    IN  IF course_last_dump_time = None
        THEN Outcome(FALSE, TRUE, "Course is not present in ClickHouse",
                     None, None, FALSE, FALSE)
        ELSE IF course_last_published_date = None
        THEN Outcome(TRUE, FALSE, "TypeError", course_last_dump_time, None,
                     TRUE, TRUE)
        ELSE compare_timestamps(course_last_dump_time,
                                course_last_published_date)

should_dump_course(course_key) ==
    LET course_last_dump_time == get_course_last_dump_time(course_key) IN
    IF course_last_dump_time = None
    THEN Outcome(FALSE, TRUE, "Course is not present in ClickHouse",
                 None, None, FALSE, FALSE)
    ELSE
    LET course_last_published_date == get_course_last_published(course_key) IN
    IF course_last_published_date = None
    THEN Outcome(FALSE, FALSE, "No last modified date in CourseOverview",
                 course_last_dump_time, None, TRUE, FALSE)
    ELSE compare_timestamps(course_last_dump_time, course_last_published_date)

(* ------------------------ the world: clock, publish -------------------- *)
NoDump == [course_key |-> "", sends |-> <<>>, result |-> "none"]
IdleTask == [pc |-> "idle", course_key |-> "", dump_id |-> 0,
             dump_timestamp |-> Str(0), stale_at_start |-> FALSE]
IdleCmd == [kind |-> "none", pc |-> "idle", object |-> None, force |-> FALSE,
            limit |-> None, batch_size |-> 1, ids |-> <<>>, skip |-> {},
            item_keys |-> <<>>, pos |-> 1, submitted |-> <<>>,
            skipped |-> <<>>, objects_to_submit |-> <<>>, marked |-> <<>>,
            message |-> ""]

\* no serialize_course call, no coordinate walk, no model-sink dump and no
\* transport call is under way
IdleFlat == [pc |-> "idle", items |-> <<>>, id_before |-> 0, started_at |-> 0,
             dump_id |-> 0, dump_timestamp |-> Str(0), overview |-> None,
             location_to_node |-> <<>>, nodes |-> <<>>, relationships |-> <<>>]
IdleTree == [pc |-> "idle", types |-> <<>>, section |-> 0, subsection |-> 0,
             unit |-> 0, rows |-> <<>>]
IdleSink == [pc |-> "idle", many |-> FALSE, item_id |-> <<>>, nested |-> 0,
             rows |-> <<>>, related |-> <<>>]
IdleHttp == [calls |-> 0, last |-> None]

\* no retirement, no task, no model sink operation, no sink construction
\* and no second worker is under way; no insert request was built
IdleRetire == [pc |-> "idle", many |-> FALSE, users |-> <<>>, run |-> 0,
               user_ids_str |-> <<>>, pos |-> 1, requests |-> <<>>]
IdleResolve == [model_config |-> [config |-> TRUE, module |-> "models",
                                  model |-> "Model"],
                calls |-> <<>>]
IdleConn == [pc |-> "idle", connection_overrides |-> None, effective |-> None]
IdleWorker == [pc |-> "idle", course_key |-> "", needs_dump |-> FALSE,
               dump_id |-> 0, dump_timestamp |-> Str(0), sends |-> <<>>]

InitAux ==
    /\ retire = IdleRetire
    /\ pii = <<>>
    /\ celery = <<>>
    /\ resolve = IdleResolve
    /\ conn = IdleConn
    /\ workers = <<>>
    /\ inserts = <<>>

InitSer ==
    /\ flat = IdleFlat
    /\ tree = IdleTree
    /\ sink = IdleSink
    /\ http = IdleHttp
    /\ InitAux

InitWorld ==
    /\ now = 1
    /\ modified = [c \in Courses |-> None]
    /\ ch_overviews = {}
    /\ ch_blocks = {}
    /\ ch_relationships = {}
    /\ queue = <<>>
    /\ task = IdleTask
    /\ next_dump_id = 1
    /\ dumps = [d \in 1..MaxDumps |-> NoDump]
    /\ failed_dump = [c \in Courses |-> "none"]

InitCmd ==
    /\ cmd = IdleCmd
    /\ yields = <<>>
    /\ lookups = <<>>
    /\ last_check = None
    /\ sink_dumps = <<>>

\* the course sink is switched on
Init == InitWorld /\ InitCmd /\ InitSer /\ enabled = TRUE

\* the course sink is switched off: dispatched tasks do nothing
InitCommands == InitWorld /\ InitCmd /\ InitSer /\ enabled = FALSE

cmd_vars == <<cmd, yields, lookups, last_check, sink_dumps>>

\* time passes
Tick ==
    /\ now < MaxTick
    /\ now' = now + 1
    /\ UNCHANGED <<modified, ch_overviews, ch_blocks, ch_relationships, queue,
                   task, next_dump_id, dumps, failed_dump, enabled>>
    /\ UNCHANGED cmd_vars
    /\ UNCHANGED ser_vars

\* A course is published: its CourseOverview row is rewritten (modified = now)
\* and receive_course_publish queues dump_course_to_clickhouse for it.
receive_course_publish(course_key) ==
    /\ Len(queue) < MaxQueue
    /\ modified' = [modified EXCEPT ![course_key] = Some(now)]
    /\ queue' = Append(queue, course_key)
    /\ failed_dump' = [failed_dump EXCEPT ![course_key] = "none"]
    /\ UNCHANGED <<now, ch_overviews, ch_blocks, ch_relationships, task,
                   next_dump_id, dumps, enabled>>
    /\ UNCHANGED cmd_vars
    /\ UNCHANGED ser_vars

(* ---------------------- CoursePublishedSink.dump ---------------------- *)
\* The rows of one dump all carry the dump's identifiers.
Row(t) == [course_key |-> t.course_key, dump_id |-> t.dump_id,
           time_last_dumped |-> t.dump_timestamp]

\* dump_course_to_clickhouse starts: serialize_course draws the dump id and
\* the dump timestamp; the three inserts follow.
dump_course_to_clickhouse ==
    /\ enabled
    /\ task.pc = "idle"
    /\ queue # <<>>
    /\ next_dump_id <= MaxDumps
    /\ LET course_key == Head(queue) IN
        /\ task' = [pc |-> "overview", course_key |-> course_key,
                    dump_id |-> next_dump_id, dump_timestamp |-> Str(now),
                    stale_at_start |->
                        LET o == should_dump_course(course_key)
                        IN  ~o.raised /\ o.needs_dump]
        /\ dumps' = [dumps EXCEPT ![next_dump_id] =
                        [course_key |-> course_key, sends |-> <<>>,
                         result |-> "running"]]
    /\ queue' = Tail(queue)
    /\ next_dump_id' = next_dump_id + 1
    /\ UNCHANGED <<now, modified, ch_overviews, ch_blocks, ch_relationships,
                   failed_dump, enabled>>
    /\ UNCHANGED cmd_vars
    /\ UNCHANGED ser_vars

\* The task when is_enabled() is false: it returns without building a sink.
dump_course_to_clickhouse_disabled ==
    /\ ~enabled
    /\ task.pc = "idle"
    /\ queue # <<>>
    /\ queue' = Tail(queue)
    /\ UNCHANGED <<now, modified, ch_overviews, ch_blocks, ch_relationships,
                   task, next_dump_id, dumps, failed_dump, enabled>>
    /\ UNCHANGED cmd_vars
    /\ UNCHANGED ser_vars

\* Mutant: the relationships are sent before the blocks.
NextInsert_reordered(table) ==
    CASE table = "overview" -> "relationships"
      [] table = "relationships" -> "blocks"
      [] table = "blocks" -> "idle"

\* What follows a successful insert in dump's try block.
NextInsert(table) ==
    CASE table = "overview" -> "blocks"
      [] table = "blocks" -> "relationships"
      [] table = "relationships" -> "idle"

\* One insert of the dump: _send_course_overview, _send_xblocks or
\* _send_relationships.  ok = FALSE is a transport failure
\* (_send_clickhouse_request raises): dump logs and re-raises, the remaining
\* inserts are not issued.
send(table, ok) ==
    /\ task.pc = table
    /\ dumps' = [dumps EXCEPT ![task.dump_id] =
                    [@ EXCEPT !.sends = Append(@, [table |-> table, ok |-> ok]),
                              !.result = IF ~ok THEN "raised"
                                         ELSE IF NextInsert(table) = "idle"
                                         THEN "completed" ELSE @]]
    /\ task' = IF ok /\ NextInsert(table) # "idle"
               THEN [task EXCEPT !.pc = NextInsert(table)]
               ELSE IdleTask
    /\ ch_overviews' = IF ok /\ table = "overview"
                       THEN ch_overviews \cup {Row(task)} ELSE ch_overviews
    /\ ch_blocks' = IF ok /\ table = "blocks"
                    THEN ch_blocks \cup {Row(task)} ELSE ch_blocks
    /\ ch_relationships' = IF ok /\ table = "relationships"
                           THEN ch_relationships \cup {Row(task)}
                           ELSE ch_relationships
    /\ failed_dump' =
         IF ~ok /\ task.stale_at_start
         THEN [failed_dump EXCEPT ![task.course_key] = table]
         ELSE IF ok /\ NextInsert(table) = "idle"
         THEN [failed_dump EXCEPT ![task.course_key] = "none"]
         ELSE failed_dump
    /\ UNCHANGED <<now, modified, queue, next_dump_id, enabled>>
    /\ UNCHANGED cmd_vars
    /\ UNCHANGED ser_vars

_send_course_overview == \E ok \in BOOLEAN : send("overview", ok)
_send_xblocks == \E ok \in BOOLEAN : send("blocks", ok)
_send_relationships == \E ok \in BOOLEAN : send("relationships", ok)

(* ---------------------- command option universes ---------------------- *)
\* --limit: absent, or an integer (possibly invalid)
LimitOptions == {None} \cup {Some(n) : n \in -1..MaxLimit}
\* --courses: sequences of course ids of length 0..2
CourseIdLists ==
    {<<>>} \cup {<<c>> : c \in Courses}
           \cup {<<c, d>> : c \in Courses, d \in Courses}

\* Python truthiness of the limit option
Truthy(limit) == limit # None /\ Val(limit) # 0

(* ---------------- dump_courses_to_clickhouse: Command.handle ----------- *)
\* Mutant: the check of limit against force is left out.
courses_handle_error_unchecked(limit, force) ==
    IF limit # None /\ Val(limit) < 1
    THEN "'limit' must be greater than 0!"
    ELSE ""

\* The CommandError message the option checks of handle raise, "" when the
\* options pass.
courses_handle_error(limit, force) ==
    IF limit # None /\ Val(limit) < 1
    THEN "'limit' must be greater than 0!"
    ELSE IF Truthy(limit) /\ force
    THEN "The 'limit' option cannot be used with 'force'"
    ELSE ""

\* course_keys of fetch_target_courses: the given courses, else every course
\* of the modulestore
fetch_target_courses_keys(courses) ==
    IF courses # <<>> THEN courses ELSE CourseSummaries

courses_handle(courses, courses_to_skip, force, limit) ==
    /\ cmd.pc = "idle"
    /\ LET message == courses_handle_error(limit, force) IN
       cmd' = [IdleCmd EXCEPT
                 !.kind = "courses", !.force = force, !.limit = limit,
                 !.ids = courses, !.skip = courses_to_skip,
                 !.message = message,
                 !.pc = IF message # "" THEN "error" ELSE "loop",
                 !.item_keys = IF message # "" THEN <<>>
                               ELSE fetch_target_courses_keys(courses)]
    /\ yields' = <<>>
    /\ lookups' = <<>>
    /\ sink_dumps' = <<>>
    /\ last_check' = None
    /\ UNCHANGED world_vars
    /\ UNCHANGED ser_vars

(* --------------- CoursePublishedSink.fetch_target_courses -------------- *)
\* What the generator does for one course key: the triple it yields, whether
\* it invoked should_dump_course, and whether that call raised.
Yield(key, should, reason) ==
    [key |-> key, should_be_dumped |-> should, reason |-> reason]

\* Mutant: the staleness policy is asked before force is looked at.
fetch_target_courses_policy_first(course_key, skipped_courses, force) ==
    IF course_key \in skipped_courses
    THEN [yield |-> Yield(course_key, FALSE, "Course is explicitly skipped"),
          looked_up |-> FALSE, raised |-> FALSE]
    ELSE LET o == should_dump_course(course_key)
         IN  IF force
             THEN [yield |-> Yield(course_key, TRUE, "Force is set"),
                   looked_up |-> TRUE, raised |-> o.raised]
             ELSE [yield |-> Yield(course_key, o.needs_dump, o.reason),
                   looked_up |-> TRUE, raised |-> o.raised]

fetch_target_courses(course_key, skipped_courses, force) ==
    IF course_key \in skipped_courses
    THEN [yield |-> Yield(course_key, FALSE, "Course is explicitly skipped"),
          looked_up |-> FALSE, raised |-> FALSE]
    ELSE IF force
    THEN [yield |-> Yield(course_key, TRUE, "Force is set"),
          looked_up |-> FALSE, raised |-> FALSE]
    ELSE LET o == should_dump_course(course_key)
         IN  [yield |-> Yield(course_key, o.needs_dump, o.reason),
              looked_up |-> TRUE, raised |-> o.raised]

(* ----------------- dump_target_courses_to_clickhouse ------------------ *)
\* One iteration of the loop: the generator produces its next triple (the
\* remote lookup of the staleness check may fail: lookup_ok = FALSE), then
\* the loop body runs on it.
courses_iteration(lookup_ok) ==
    /\ cmd.kind = "courses" /\ cmd.pc = "loop"
    /\ cmd.pos <= Len(cmd.item_keys)
    /\ LET course_key == cmd.item_keys[cmd.pos]
           g == fetch_target_courses(course_key, cmd.skip, cmd.force)
           y == g.yield
       IN
       /\ (~g.looked_up => lookup_ok)
       /\ lookups' = IF g.looked_up THEN Append(lookups, course_key)
                     ELSE lookups
       /\ last_check' =
            IF g.looked_up /\ lookup_ok
            THEN Some([course_key |-> course_key,
                       body |-> last_dump_response(course_key),
                       modified |-> modified[course_key],
                       outcome |-> should_dump_course(course_key),
                       after_failure |-> failed_dump[course_key]])
            ELSE last_check
       /\ IF (g.looked_up /\ ~lookup_ok) \/ g.raised
          THEN \* the exception leaves the generator and the command
               /\ cmd' = [cmd EXCEPT !.pc = "crashed"]
               /\ UNCHANGED <<yields, queue>>
          ELSE
            /\ yields' = Append(yields, y)
            /\ IF ~y.should_be_dumped
               THEN /\ cmd' = [cmd EXCEPT !.pos = @ + 1,
                                          !.skipped = Append(@, course_key)]
                    /\ UNCHANGED queue
               ELSE /\ Len(queue) < MaxQueue
                    /\ queue' = Append(queue, course_key)
                    /\ LET submitted_courses == Append(cmd.submitted, course_key)
                       IN cmd' = [cmd EXCEPT
                            !.pos = @ + 1,
                            !.submitted = submitted_courses,
                            !.marked = Append(@, course_key),
                            !.pc = IF Truthy(cmd.limit)
                                      /\ Len(submitted_courses) = Val(cmd.limit)
                                   THEN "done" ELSE @]
    /\ sink_dumps' = sink_dumps
    /\ UNCHANGED <<now, modified, ch_overviews, ch_blocks, ch_relationships,
                   task, next_dump_id, dumps, failed_dump, enabled>>
    /\ UNCHANGED ser_vars

dump_target_courses_to_clickhouse == \E lookup_ok \in BOOLEAN :
    courses_iteration(lookup_ok)

\* the generator is exhausted: the loop ends and the lists are returned
courses_return ==
    /\ cmd.kind = "courses" /\ cmd.pc = "loop"
    /\ cmd.pos > Len(cmd.item_keys)
    /\ cmd' = [cmd EXCEPT !.pc = "done"]
    /\ UNCHANGED <<yields, lookups, last_check, sink_dumps>>
    /\ UNCHANGED world_vars
    /\ UNCHANGED ser_vars

dump_courses_to_clickhouse ==
    /\ cmd.pc = "idle"
    /\ \E courses \in CourseIdLists, courses_to_skip \in SUBSET Courses,
       force \in BOOLEAN, limit \in LimitOptions :
        courses_handle(courses, courses_to_skip, force, limit)

\* "python manage.py cms dump_courses_to_clickhouse": the command with no
\* option given
dump_courses_to_clickhouse_default ==
    courses_handle(<<>>, {}, FALSE, None)

(* ------------------- keys of the generic model sink -------------------- *)
\* Object ids are integers in the ORM and strings on the command line;
\* str() maps both to the string.
IntKey(n) == [t |-> "int", v |-> n]
StrKey(n) == [t |-> "str", v |-> n]
str(key) == [t |-> "str", v |-> key.v]

\* [item.id for item in self.get_queryset()]
get_queryset == [i \in 1..NumObjects |-> IntKey(i)]

\* --ids / --ids_to_skip as typed on the command line
ObjectIdLists ==
    {<<>>} \cup {<<StrKey(a)>> : a \in 1..NumObjects}
           \cup {<<StrKey(a), StrKey(b)>> : a \in 1..NumObjects,
                                            b \in 1..NumObjects}
ObjectSkipLists == {<<>>} \cup {<<StrKey(a)>> : a \in 1..NumObjects}
\* --object: absent, the model name of a sink, a name no sink has
ObjectOptions == {None, Some("user_profile"), Some("no_such_model")}
SinkModels == {"user_profile", "external_id", "auth_user"}

Range(seq) == {seq[i] : i \in 1..Len(seq)}

(* ------------------ ModelBaseSink.fetch_target_items ------------------- *)
convert_id(item_id) == item_id

fetch_target_items_keys(ids) ==
    IF ids # <<>> THEN [i \in 1..Len(ids) |-> convert_id(ids[i])]
    ELSE get_queryset

should_dump_item(unique_key) == [needs_dump |-> TRUE, reason |-> "No reason"]

\* Mutant: the key is compared with the skip list without str().
fetch_target_items_raw_compare(item_key, skip_ids, force_dump) ==
    IF item_key \in Range(skip_ids)
    THEN [yield |-> Yield(item_key, FALSE, "is explicitly skipped"),
          looked_up |-> FALSE]
    ELSE IF force_dump
    THEN [yield |-> Yield(item_key, TRUE, "Force is set"),
          looked_up |-> FALSE]
    ELSE [yield |-> Yield(item_key, TRUE, "No reason"), looked_up |-> TRUE]

fetch_target_items(item_key, skip_ids, force_dump) ==
    LET skip_strs == {str(k) : k \in Range(skip_ids)} IN
    IF str(item_key) \in skip_strs
    THEN [yield |-> Yield(item_key, FALSE, "is explicitly skipped"),
          looked_up |-> FALSE]
    ELSE IF force_dump
    THEN [yield |-> Yield(item_key, TRUE, "Force is set"),
          looked_up |-> FALSE]
    ELSE LET o == should_dump_item(item_key)
         IN  [yield |-> Yield(item_key, o.needs_dump, o.reason),
              looked_up |-> TRUE]

(* ----------------- dump_data_to_clickhouse: Command.handle ------------- *)
data_handle_error(limit, force, object) ==
    IF limit # None /\ Val(limit) < 1
    THEN "'limit' must be greater than 0!"
    ELSE IF Truthy(limit) /\ force
    THEN "The 'limit' option cannot be used with 'force'"
    ELSE IF object = None
    THEN "You must specify an object type to dump!"
    ELSE ""

data_handle(object, ids, ids_to_skip, force, limit, batch_size) ==
    /\ cmd.pc = "idle"
    /\ LET message == data_handle_error(limit, force, object)
           \* for cls in ModelBaseSink.__subclasses__(): cls.model == object
           found == object # None /\ Val(object) \in SinkModels
       IN
       cmd' = [IdleCmd EXCEPT
                 !.kind = "data", !.object = object, !.force = force,
                 !.limit = limit, !.batch_size = batch_size,
                 !.ids = ids, !.skip = ids_to_skip,
                 !.message = message,
                 !.pc = IF message # "" THEN "error"
                        ELSE IF found THEN "loop" ELSE "done",
                 !.item_keys = IF message = "" /\ found
                               THEN fetch_target_items_keys(ids) ELSE <<>>]
    /\ yields' = <<>>
    /\ lookups' = <<>>
    /\ sink_dumps' = <<>>
    /\ last_check' = None
    /\ UNCHANGED world_vars
    /\ UNCHANGED ser_vars

dump_data_to_clickhouse ==
    /\ cmd.pc = "idle"
    /\ \E object \in ObjectOptions, ids \in ObjectIdLists,
       ids_to_skip \in ObjectSkipLists, force \in BOOLEAN,
       limit \in LimitOptions, batch_size \in 1..MaxBatch :
        data_handle(object, ids, ids_to_skip, force, limit, batch_size)

(* ----------------- dump_target_objects_to_clickhouse ------------------- *)
\* Mutant: the pending list is not emptied after a batch is dumped.
objects_body_not_cleared(c, object_id, dump_ok) ==
    LET appended == Append(c.objects_to_submit, object_id)
        full == Len(appended) % c.batch_size = 0
        submitted1 == IF full THEN c.submitted \o appended ELSE c.submitted
        submitted2 == Append(submitted1, str(object_id))
    IN  IF full /\ ~dump_ok
        THEN [c EXCEPT !.pc = "crashed",
                       !.objects_to_submit = appended,
                       !.marked = Append(@, object_id)]
        ELSE [c EXCEPT
                !.pos = @ + 1,
                !.marked = Append(@, object_id),
                !.objects_to_submit = appended,
                !.submitted = submitted2,
                !.pc = IF Truthy(c.limit) /\ Len(submitted2) = Val(c.limit)
                       THEN "done" ELSE @]

\* The state of the loop after its body ran on one object marked for
\* submission; dump_ok tells whether sink.dump returned (when it was called).
objects_body(c, object_id, dump_ok) ==
    LET appended == Append(c.objects_to_submit, object_id)
        full == Len(appended) % c.batch_size = 0
        submitted1 == IF full THEN c.submitted \o appended ELSE c.submitted
        submitted2 == Append(submitted1, str(object_id))
    IN  IF full /\ ~dump_ok
        THEN [c EXCEPT !.pc = "crashed",
                       !.objects_to_submit = appended,
                       !.marked = Append(@, object_id)]
        ELSE [c EXCEPT
                !.pos = @ + 1,
                !.marked = Append(@, object_id),
                !.objects_to_submit = IF full THEN <<>> ELSE appended,
                !.submitted = submitted2,
                !.pc = IF Truthy(c.limit) /\ Len(submitted2) = Val(c.limit)
                       THEN "done" ELSE @]

\* One iteration of the loop: the generator's next triple, then the body.
objects_iteration(dump_ok) ==
    /\ cmd.kind = "data" /\ cmd.pc = "loop"
    /\ cmd.pos <= Len(cmd.item_keys)
    /\ LET object_id == cmd.item_keys[cmd.pos]
           g == fetch_target_items(object_id, cmd.skip, cmd.force)
           y == g.yield
           dumps_now == y.should_be_dumped
                        /\ (Len(cmd.objects_to_submit) + 1) % cmd.batch_size = 0
       IN
       /\ (~dumps_now => dump_ok)
       /\ lookups' = IF g.looked_up THEN Append(lookups, object_id)
                     ELSE lookups
       /\ yields' = Append(yields, y)
       /\ sink_dumps' = IF dumps_now
                        THEN Append(sink_dumps,
                                    Append(cmd.objects_to_submit, object_id))
                        ELSE sink_dumps
       /\ cmd' = IF ~y.should_be_dumped
                 THEN [cmd EXCEPT !.pos = @ + 1,
                                  !.skipped = Append(@, object_id)]
                 ELSE objects_body(cmd, object_id, dump_ok)
    /\ UNCHANGED last_check
    /\ UNCHANGED world_vars
    /\ UNCHANGED ser_vars

dump_target_objects_to_clickhouse == \E dump_ok \in BOOLEAN :
    objects_iteration(dump_ok)

objects_return ==
    /\ cmd.kind = "data" /\ cmd.pc = "loop"
    /\ cmd.pos > Len(cmd.item_keys)
    /\ cmd' = [cmd EXCEPT !.pc = "done"]
    /\ UNCHANGED <<yields, lookups, last_check, sink_dumps>>
    /\ UNCHANGED world_vars
    /\ UNCHANGED ser_vars

\* The command's process ends (normally, with a CommandError or with an
\* uncaught exception); the next invocation starts afresh.
command_exit ==
    /\ cmd.pc \in {"done", "error", "crashed"}
    /\ cmd' = IdleCmd
    /\ yields' = <<>>
    /\ lookups' = <<>>
    /\ sink_dumps' = <<>>
    /\ last_check' = None
    /\ UNCHANGED world_vars
    /\ UNCHANGED ser_vars

(* --------------- CoursePublishedSink.serialize_course ------------------ *)
\* block ids of the blocks modulestore.get_items returns
ItemIds == {"a", "b"}
\* block ids a block names as its children; "c" is never among the items
ChildIds == {"b", "c"}
\* branches a location of the split modulestore may carry
Branches == {"draft-branch", "published-branch"}

Location(block_id, branch) == [block_id |-> block_id, branch |-> branch]

\* location.for_branch(None)
strip_branch_and_version(location) == [location EXCEPT !.branch = None]

ItemLocations == {Location(b, Some(br)) : b \in ItemIds, br \in Branches}
ChildLocations == {Location(b, Some("published-branch")) : b \in ChildIds}

\* item.get_children(): none, one or two children
ChildLists ==
    {<<>>} \cup {<<c>> : c \in ChildLocations}
           \cup {<<c, d>> : c \in ChildLocations, d \in ChildLocations}

\* the lists modulestore.get_items(course_id) may return: no two items have
\* the same full location
ItemLists ==
    {items \in UNION {[1..n -> [location : ItemLocations,
                                children : ChildLists]] : n \in 0..MaxBlocks} :
        \A i, j \in 1..Len(items) :
            items[i].location = items[j].location => i = j}

\* A Python dict: the sequence of its (key, value) pairs in insertion order.
\* d[key] = value keeps the position of a key that is already present.
dict_setitem(d, key, value) ==
    IF \E i \in 1..Len(d) : d[i].key = key
    THEN [i \in 1..Len(d) |->
            IF d[i].key = key THEN [key |-> key, value |-> value] ELSE d[i]]
    ELSE Append(d, [key |-> key, value |-> value])

\* d.get(key)
dict_get(d, key) ==
    IF \E i \in 1..Len(d) : d[i].key = key
    THEN Some(d[CHOOSE i \in 1..Len(d) : d[i].key = key].value)
    ELSE None

\* list(d.values())
dict_values(d) == [i \in 1..Len(d) |-> d[i].value]

serialize_course_overview(dump_id, time_last_dumped) ==
    [dump_id |-> dump_id, time_last_dumped |-> time_last_dumped]

\* Mutant: the block row is stamped with the time of its own serialization.
serialize_xblock_own_timestamp(item, index, dump_id, dump_timestamp) ==
    [location |-> item.location, order |-> index, dump_id |-> dump_id,
     time_last_dumped |-> Str(now)]

\* The row of one block; its location keeps branch and version.
serialize_xblock(item, index, dump_id, dump_timestamp) ==
    [location |-> item.location, order |-> index, dump_id |-> dump_id,
     time_last_dumped |-> dump_timestamp]

\* Mutant: the lookup starts with a placeholder for the course root.
location_to_node_seeded(items, dump_id, dump_timestamp) ==
    LET F[i \in 0..Len(items)] ==
          IF i = 0
          THEN <<[key |-> Location("course", None),
                  value |-> serialize_xblock(
                               [location |-> Location("course", None),
                                children |-> <<>>],
                               0, dump_id, dump_timestamp)]>>
          ELSE dict_setitem(F[i - 1],
                            strip_branch_and_version(items[i].location),
                            serialize_xblock(items[i], i, dump_id,
                                             dump_timestamp))
    IN  F[Len(items)]

\* The first loop of serialize_course: index counts the items from 1, each
\* row is stored under the item's location without branch and version.
location_to_node(items, dump_id, dump_timestamp) ==
    LET F[i \in 0..Len(items)] ==
          IF i = 0 THEN <<>>
          ELSE dict_setitem(F[i - 1],
                            strip_branch_and_version(items[i].location),
                            serialize_xblock(items[i], i, dump_id,
                                             dump_timestamp))
    IN  F[Len(items)]

\* Mutant: the row names the locations of the item and of the child as the
\* module store gave them, whether or not the lookup holds them.
relationship_unchecked(nodes_by_location, item, index, dump_id, dump_timestamp) ==
    <<[parent_location |-> item.location,
       child_location |-> item.children[index + 1],
       order |-> index, dump_id |-> dump_id,
       time_last_dumped |-> dump_timestamp]>>

\* The body of the inner loop for child number index (from 0) of item: the
\* rows it appends to relationships, none when an endpoint is not in the
\* lookup.
relationship(nodes_by_location, item, index, dump_id, dump_timestamp) ==
    LET parent_node ==
          dict_get(nodes_by_location, strip_branch_and_version(item.location))
        child_node ==
          dict_get(nodes_by_location,
                   strip_branch_and_version(item.children[index + 1]))
    IN  IF parent_node # None /\ child_node # None
        THEN <<[parent_location |-> Val(parent_node).location,
                child_location |-> Val(child_node).location,
                order |-> index, dump_id |-> dump_id,
                time_last_dumped |-> dump_timestamp]>>
        ELSE <<>>

\* The second loop of serialize_course: every item, every child in order.
relationships(items, nodes_by_location, dump_id, dump_timestamp) ==
    LET OfItem(item) ==
          LET G[c \in 0..Len(item.children)] ==
                IF c = 0 THEN <<>>
                ELSE G[c - 1] \o relationship(nodes_by_location, item, c - 1,
                                              dump_id, dump_timestamp)
          IN  G[Len(item.children)]
        F[i \in 0..Len(items)] ==
          IF i = 0 THEN <<>> ELSE F[i - 1] \o OfItem(items[i])
    IN  F[Len(items)]

\* serialize_course is called on a course whose items are drawn here
InitFlatten ==
    \E items \in ItemLists :
        flat = [IdleFlat EXCEPT !.pc = "called", !.items = items]

\* Lines 189-194: the dump id and the dump timestamp are drawn, the course
\* overview is serialized.
serialize_course_start ==
    /\ flat.pc = "called"
    /\ flat' = [flat EXCEPT
                  !.pc = "blocks",
                  !.id_before = next_dump_id,
                  !.started_at = now,
                  !.dump_id = next_dump_id,
                  !.dump_timestamp = Str(now),
                  !.overview = Some(serialize_course_overview(next_dump_id,
                                                              Str(now)))]
    /\ next_dump_id' = next_dump_id + 1
    /\ UNCHANGED <<now, modified, ch_overviews, ch_blocks, ch_relationships,
                   queue, task, dumps, failed_dump, enabled>>
    /\ UNCHANGED cmd_vars
    /\ UNCHANGED <<tree, sink, http>>
    /\ UNCHANGED aux_vars

\* Lines 196-206: the blocks are serialized into the lookup.
serialize_course_blocks ==
    /\ flat.pc = "blocks"
    /\ flat' = [flat EXCEPT
                  !.pc = "relationships",
                  !.location_to_node =
                      location_to_node(flat.items, flat.dump_id,
                                       flat.dump_timestamp)]
    /\ UNCHANGED world_vars
    /\ UNCHANGED cmd_vars
    /\ UNCHANGED <<tree, sink, http>>
    /\ UNCHANGED aux_vars

\* Lines 208-227: the relationships are built, the rows are returned.
serialize_course_return ==
    /\ flat.pc = "relationships"
    /\ flat' = [flat EXCEPT
                  !.pc = "returned",
                  !.relationships =
                      relationships(flat.items, flat.location_to_node,
                                    flat.dump_id, flat.dump_timestamp),
                  !.nodes = dict_values(flat.location_to_node)]
    /\ UNCHANGED world_vars
    /\ UNCHANGED cmd_vars
    /\ UNCHANGED <<tree, sink, http>>
    /\ UNCHANGED aux_vars

(* ------------- course tree coordinates: section, subsection, unit ------ *)
\* block types of the walk; "problem" stands for every type that is not a
\* container
BlockTypes == {"chapter", "sequential", "vertical", "problem"}

\* the block types of a course in traversal order
TypeLists == UNION {[1..n -> BlockTypes] : n \in 0..MaxTreeBlocks}

\* Mutant: a new chapter resets subsection and leaves unit as it is.
coordinates_no_unit_reset(c, block_type) ==
    CASE block_type = "chapter" ->
            [section |-> c.section + 1, subsection |-> 0, unit |-> c.unit]
      [] block_type = "sequential" ->
            [section |-> c.section, subsection |-> c.subsection + 1, unit |-> 0]
      [] block_type = "vertical" ->
            [section |-> c.section, subsection |-> c.subsection,
             unit |-> c.unit + 1]
      [] OTHER -> c

\* The counters after a block of the given type is met: a chapter increments
\* section and resets subsection and unit, a sequential increments subsection
\* and resets unit, a vertical increments unit.
coordinates(c, block_type) ==
    CASE block_type = "chapter" ->
            [section |-> c.section + 1, subsection |-> 0, unit |-> 0]
      [] block_type = "sequential" ->
            [section |-> c.section, subsection |-> c.subsection + 1, unit |-> 0]
      [] block_type = "vertical" ->
            [section |-> c.section, subsection |-> c.subsection,
             unit |-> c.unit + 1]
      [] OTHER -> c

\* the walk starts on a course whose block types are drawn here, the three
\* counters at 0
InitTree ==
    \E types \in TypeLists :
        tree = [IdleTree EXCEPT !.pc = "walk", !.types = types]

\* The next block is visited: the counters move, the block's row is stamped
\* with their values.
flatten_visit_block ==
    /\ tree.pc = "walk"
    /\ Len(tree.rows) < Len(tree.types)
    /\ LET block_type == tree.types[Len(tree.rows) + 1]
           c == coordinates([section |-> tree.section,
                             subsection |-> tree.subsection,
                             unit |-> tree.unit], block_type)
       IN  tree' = [tree EXCEPT
                      !.section = c.section,
                      !.subsection = c.subsection,
                      !.unit = c.unit,
                      !.rows = Append(@, [block_type |-> block_type,
                                          section |-> c.section,
                                          subsection |-> c.subsection,
                                          unit |-> c.unit])]
    /\ UNCHANGED world_vars
    /\ UNCHANGED cmd_vars
    /\ UNCHANGED <<flat, sink, http>>
    /\ UNCHANGED aux_vars

\* every block has been visited
flatten_return ==
    /\ tree.pc = "walk"
    /\ Len(tree.rows) = Len(tree.types)
    /\ tree' = [tree EXCEPT !.pc = "returned"]
    /\ UNCHANGED world_vars
    /\ UNCHANGED cmd_vars
    /\ UNCHANGED <<flat, sink, http>>
    /\ UNCHANGED aux_vars

(* ------------------ BaseSink._send_clickhouse_request ------------------ *)
\* What session.send comes back with.  answered = FALSE: no response, the
\* send itself raised (connection error, timeout).  summary tells what the
\* X-ClickHouse-Summary header holds: it is absent, it is not JSON, it is
\* JSON without written_rows, or it names written_rows.
Responses ==
    {[answered |-> FALSE, status_code |-> 0, summary |-> "absent",
      written_rows |-> 0]}
      \cup {[answered |-> TRUE, status_code |-> st, summary |-> su,
             written_rows |-> 0] :
               st \in {200, 500},
               su \in {"absent", "malformed", "no written_rows"}}
      \cup {[answered |-> TRUE, status_code |-> st, summary |-> "written_rows",
             written_rows |-> w] : st \in {200, 500}, w \in 0..MaxWritten}

\* the expected_insert_rows argument: None by default
ExpectedRows == {None} \cup {Some(n) : n \in 0..MaxWritten}

\* response.raise_for_status() raises HTTPError on a 4xx or 5xx status
raise_for_status(response) == response.status_code >= 400

\* How a call ends: the HTTP requests it issued, the log.error calls it
\* made, the exception that left it ("" when it returned the response).
Sent(requests, errors, raised) ==
    [requests |-> requests, errors |-> errors, raised |-> raised,
     returned |-> raised = ""]

\* Mutant: a missing header or written_rows entry is not caught.
_send_clickhouse_request_no_except(expected_insert_rows, response) ==
    IF ~response.answered THEN Sent(1, 0, "ConnectionError")
    ELSE IF raise_for_status(response) THEN Sent(1, 4, "HTTPError")
    ELSE IF ~Truthy(expected_insert_rows) THEN Sent(1, 0, "")
    ELSE CASE response.summary = "absent" -> Sent(1, 0, "KeyError")
           [] response.summary = "malformed" -> Sent(1, 0, "JSONDecodeError")
           [] response.summary = "no written_rows" -> Sent(1, 0, "KeyError")
           [] response.summary = "written_rows" ->
                Sent(1, IF Val(expected_insert_rows) # response.written_rows
                        THEN 1 ELSE 0, "")

\* Mutant: after an error status the request is sent once more.
_send_clickhouse_request_retrying(expected_insert_rows, response) ==
    IF ~response.answered THEN Sent(1, 0, "ConnectionError")
    ELSE IF raise_for_status(response) THEN Sent(2, 4, "HTTPError")
    ELSE IF ~Truthy(expected_insert_rows) THEN Sent(1, 0, "")
    ELSE CASE response.summary = "absent" -> Sent(1, 0, "")
           [] response.summary = "malformed" -> Sent(1, 0, "JSONDecodeError")
           [] response.summary = "no written_rows" -> Sent(1, 0, "")
           [] response.summary = "written_rows" ->
                Sent(1, IF Val(expected_insert_rows) # response.written_rows
                        THEN 1 ELSE 0, "")

\* One call: session.send once, raise_for_status, then the audit of the row
\* count when expected_insert_rows is truthy.  HTTPError is logged with four
\* log.error calls and re-raised; KeyError (no header, no written_rows) is
\* eaten and the response returned; an exception of session.send and the
\* ValueError of json.loads on a header that is not JSON are not caught.
_send_clickhouse_request(expected_insert_rows, response) ==
    IF ~response.answered THEN Sent(1, 0, "ConnectionError")
    ELSE IF raise_for_status(response) THEN Sent(1, 4, "HTTPError")
    ELSE IF ~Truthy(expected_insert_rows) THEN Sent(1, 0, "")
    ELSE CASE response.summary = "absent" -> Sent(1, 0, "")
           [] response.summary = "malformed" -> Sent(1, 0, "JSONDecodeError")
           [] response.summary = "no written_rows" -> Sent(1, 0, "")
           [] response.summary = "written_rows" ->
                Sent(1, IF Val(expected_insert_rows) # response.written_rows
                        THEN 1 ELSE 0, "")

\* the record of a call in http
Call(expected_insert_rows, response) ==
    [calls |-> http.calls + 1,
     last |-> Some([expected_insert_rows |-> expected_insert_rows,
                    response |-> response,
                    outcome |-> _send_clickhouse_request(expected_insert_rows,
                                                         response)])]

\* a sink calls the transport with any expected count, the remote answers
\* in any way
transport_request ==
    /\ http.calls < MaxCalls
    /\ \E expected_insert_rows \in ExpectedRows, response \in Responses :
          http' = Call(expected_insert_rows, response)
    /\ UNCHANGED world_vars
    /\ UNCHANGED cmd_vars
    /\ UNCHANGED <<flat, tree, sink>>
    /\ UNCHANGED aux_vars

(* ------------------------- ModelBaseSink.dump -------------------------- *)
\* BaseSinkSerializer.get_dump_id: uuid.uuid4()
get_dump_id == next_dump_id

\* BaseSinkSerializer.get_time_last_dumped: timezone.now()
get_time_last_dumped == now

\* the serializer's representation of one instance: the method fields are
\* evaluated for this instance
to_representation(instance) ==
    [id |-> instance, dump_id |-> get_dump_id,
     time_last_dumped |-> get_time_last_dumped]

\* dump is called with many = True on a list of ids, or with many = False on
\* one id, by a sink with some nested sinks
InitSink ==
    \E many \in BOOLEAN, n \in 0..MaxRows, nested \in 0..MaxNested :
        /\ many \/ n = 1
        /\ sink = [IdleSink EXCEPT !.pc = "serialize", !.many = many,
                                   !.item_id = [i \in 1..n |-> i],
                                   !.nested = nested]

\* serialize_item: serializer.data represents the next instance
serialize_item ==
    /\ sink.pc = "serialize"
    /\ Len(sink.rows) < Len(sink.item_id)
    /\ sink' = [sink EXCEPT
                  !.rows = Append(@, to_representation(
                                        sink.item_id[Len(sink.rows) + 1]))]
    /\ next_dump_id' = next_dump_id + 1
    /\ UNCHANGED <<now, modified, ch_overviews, ch_blocks, ch_relationships,
                   queue, task, dumps, failed_dump, enabled>>
    /\ UNCHANGED cmd_vars
    /\ UNCHANGED <<flat, tree, http>>
    /\ UNCHANGED aux_vars

\* Mutant: send_item_and_log logs the exception and does not re-raise it.
after_send_swallowed(outcome, rows, nested) ==
    IF nested = 0 \/ rows = <<>> THEN "done" ELSE "related"

\* Where dump goes on after send_item_and_log: an exception of the send
\* leaves dump; otherwise the nested sinks follow.
after_send(outcome, rows, nested) ==
    IF outcome.raised # "" THEN "raised"
    ELSE IF nested = 0 \/ rows = <<>> THEN "done" ELSE "related"

\* an insert request as the transport is handed it: the table, the CSV
\* rows of its body, the expected row count
InsertRequest(table, body, expected_insert_rows) ==
    [table |-> table, body |-> body,
     expected_insert_rows |-> expected_insert_rows]

\* Lines 274-278 of send_item: writer.writerow once per node when many, once
\* for the item otherwise.
writerows(serialized_item, many) ==
    IF many THEN [i \in DOMAIN serialized_item |-> serialized_item[i]]
    ELSE <<serialized_item>>

\* Mutant: the expected count is len(serialized_item) whatever many is.
send_item_expected_rows_len(serialized_item, many) ==
    IF many THEN Len(serialized_item) ELSE Cardinality(DOMAIN serialized_item)

\* Lines 288-290 of send_item: len(serialized_item) if many else 1
send_item_expected_rows(serialized_item, many) ==
    IF many THEN Len(serialized_item) ELSE 1

\* send_item_and_log: the rows are sent in one request, with the number of
\* rows (1 when many is false) as the expected row count.
send_item_and_log ==
    /\ sink.pc = "serialize"
    /\ Len(sink.rows) = Len(sink.item_id)
    /\ \E response \in Responses :
         LET serialized_item == IF sink.many THEN sink.rows ELSE sink.rows[1]
             expected == send_item_expected_rows(serialized_item, sink.many)
             outcome == _send_clickhouse_request(Some(expected), response)
         IN  /\ http' = Call(Some(expected), response)
             /\ inserts' = Append(inserts,
                                  InsertRequest("model",
                                                writerows(serialized_item,
                                                          sink.many),
                                                expected))
             /\ sink' = [sink EXCEPT
                           !.pc = after_send(outcome, sink.rows, sink.nested)]
    /\ UNCHANGED world_vars
    /\ UNCHANGED cmd_vars
    /\ UNCHANGED <<flat, tree>>
    /\ UNCHANGED <<retire, pii, celery, resolve, conn, workers>>

\* the arguments of the k-th dump_related call of the two loops: rows in
\* order, for each row the nested sinks in order
dump_related_call(rows, nested, k) ==
    LET item == rows[((k - 1) \div nested) + 1]
    IN  [nested_sink |-> ((k - 1) % nested) + 1,
         item |-> item,
         dump_id |-> item.dump_id,
         time_last_dumped |-> item.time_last_dumped]

\* the next nested_sink.dump_related call; ok = FALSE: it raises, and the
\* exception leaves dump
dump_related(ok) ==
    /\ sink.pc = "related"
    /\ LET k == Len(sink.related) + 1
       IN  sink' = [sink EXCEPT
                      !.related = Append(@, dump_related_call(sink.rows,
                                                              sink.nested, k)),
                      !.pc = IF ~ok THEN "raised"
                             ELSE IF k = Len(sink.rows) * sink.nested
                             THEN "done" ELSE @]
    /\ UNCHANGED world_vars
    /\ UNCHANGED cmd_vars
    /\ UNCHANGED <<flat, tree, http>>
    /\ UNCHANGED aux_vars

dump_nested == \E ok \in BOOLEAN : dump_related(ok)

(* -------------------- UserRetirementSink.send_item --------------------- *)
\* user ids of the retired users; as strings, 10 sorts before 2
UserIds == {1, 2, 10}

\* the serialized users of one call, in any order, repeats included
UserLists ==
    UNION {[1..n -> [user_id : UserIds]] : n \in 1..MaxUsers}

\* settings.EVENT_SINK_CLICKHOUSE_PII_MODELS
EVENT_SINK_CLICKHOUSE_PII_MODELS == <<"user_profile", "external_id">>

\* the decimal digits, in the order of their code points
Digits == <<"0", "1", "2", "3", "4", "5", "6", "7", "8", "9">>

ord(c) == CHOOSE i \in DOMAIN Digits : Digits[i] = c

\* str(user["user_id"]): the decimal text of a natural number, one
\* character per element
RECURSIVE str_user_id(_)
str_user_id(n) ==
    IF n < 10 THEN <<Digits[n + 1]>>
    ELSE str_user_id(n \div 10) \o <<Digits[(n % 10) + 1]>>

\* a < b for Python strings: code point by code point, a prefix first
RECURSIVE str_lt(_, _)
str_lt(a, b) ==
    IF b = <<>> THEN FALSE
    ELSE IF a = <<>> THEN TRUE
    ELSE IF Head(a) = Head(b) THEN str_lt(Tail(a), Tail(b))
    ELSE ord(Head(a)) < ord(Head(b))

\* sorted(strings) of a set of strings
RECURSIVE sorted(_)
sorted(strings) ==
    IF strings = {} THEN <<>>
    ELSE LET first == CHOOSE s \in strings :
                         \A t \in strings \ {s} : str_lt(s, t)
         IN  <<first>> \o sorted(strings \ {first})

\* sep.join(strings)
RECURSIVE join(_, _)
join(sep, strings) ==
    IF strings = <<>> THEN <<>>
    ELSE IF Len(strings) = 1 THEN strings[1]
    ELSE strings[1] \o <<sep>> \o join(sep, Tail(strings))

\* Mutant: the ids are joined as given, neither deduplicated nor sorted.
user_ids_str_as_given(users) ==
    join(",", [i \in DOMAIN users |-> str_user_id(users[i].user_id)])

\* Lines 33-34: the set of the ids' strings, sorted, joined with commas.
user_ids_str(users) ==
    join(",", sorted({str_user_id(users[i].user_id) : i \in DOMAIN users}))

\* The remote reads the list of "user_id in (...)": the texts between the
\* commas ...
RECURSIVE split(_, _)
split(text, sep) ==
    IF \A i \in DOMAIN text : text[i] # sep THEN <<text>>
    ELSE LET k == CHOOSE i \in DOMAIN text :
                     text[i] = sep /\ \A j \in 1..(i - 1) : text[j] # sep
         IN  <<SubSeq(text, 1, k - 1)>>
               \o split(SubSeq(text, k + 1, Len(text)), sep)

\* ... each read as a number
RECURSIVE int(_)
int(text) ==
    IF text = <<>> THEN 0
    ELSE 10 * int(SubSeq(text, 1, Len(text) - 1)) + ord(text[Len(text)]) - 1

\* the user ids the predicate "user_id in (text)" selects
in_list(text) == {int(t) : t \in Range(split(text, ","))}

\* Mutant: the number of users is passed as expected_insert_rows.
retire_expected_insert_rows_counted(users) == Some(Len(users))

\* Line 49: _send_clickhouse_request(request), expected_insert_rows is left
\* at its default.
retire_expected_insert_rows(users) == None

\* Mutant: a failed delete is swallowed and the loop goes on.
retire_after_delete_swallowed(outcome, pos) ==
    IF pos = Len(EVENT_SINK_CLICKHOUSE_PII_MODELS) THEN "done" ELSE "deleting"

\* Lines 39-49: the loop has no try; an exception of the transport leaves
\* send_item, otherwise the next table follows.
retire_after_delete(outcome, pos) ==
    IF outcome.raised # "" THEN "raised"
    ELSE IF pos = Len(EVENT_SINK_CLICKHOUSE_PII_MODELS) THEN "done"
    ELSE "deleting"

\* send_item is called with one serialized user, or with many = True and a
\* list of them; every PII table holds rows of every user
InitRetire ==
    /\ \E many \in BOOLEAN, users \in UserLists :
          /\ many \/ Len(users) = 1
          /\ retire = [IdleRetire EXCEPT !.pc = "called", !.many = many,
                                         !.users = users, !.run = 1]
    /\ pii = [t \in Range(EVENT_SINK_CLICKHOUSE_PII_MODELS) |-> UserIds]

\* Lines 27-37: the predicate's id list is built, the PII tables are read
\* from the settings.
retire_send_item ==
    /\ retire.pc = "called"
    /\ retire' = [retire EXCEPT
                    !.pc = IF EVENT_SINK_CLICKHOUSE_PII_MODELS = <<>>
                           THEN "done" ELSE "deleting",
                    !.pos = 1,
                    !.user_ids_str = user_ids_str(retire.users)]
    /\ UNCHANGED world_vars
    /\ UNCHANGED cmd_vars
    /\ UNCHANGED <<flat, tree, sink, http>>
    /\ UNCHANGED <<pii, celery, resolve, conn, workers, inserts>>

\* Lines 39-49: the delete of the next PII table.  The remote removes the
\* selected rows when it answers 200.
retire_delete ==
    /\ retire.pc = "deleting"
    /\ \E response \in Responses :
         LET table == EVENT_SINK_CLICKHOUSE_PII_MODELS[retire.pos]
             expected_insert_rows == retire_expected_insert_rows(retire.users)
             outcome == _send_clickhouse_request(expected_insert_rows,
                                                 response)
             applied == response.answered /\ ~raise_for_status(response)
             after == IF applied THEN pii[table] \ in_list(retire.user_ids_str)
                      ELSE pii[table]
         IN  /\ pii' = [pii EXCEPT ![table] = after]
             /\ retire' = [retire EXCEPT
                  !.pc = retire_after_delete(outcome, retire.pos),
                  !.pos = @ + 1,
                  !.requests = Append(@,
                      [run |-> retire.run, table |-> table,
                       user_ids_str |-> retire.user_ids_str,
                       applied |-> applied, raised |-> outcome.raised,
                       errors |-> outcome.errors,
                       before |-> pii[table], after |-> after])]
    /\ UNCHANGED world_vars
    /\ UNCHANGED cmd_vars
    /\ UNCHANGED <<flat, tree, sink, http>>
    /\ UNCHANGED <<celery, resolve, conn, workers, inserts>>

\* the retirement is run once more for the same users
retire_again ==
    /\ retire.pc \in {"done", "raised"}
    /\ retire.run < MaxRuns
    /\ retire' = [retire EXCEPT !.pc = "called", !.run = @ + 1]
    /\ UNCHANGED world_vars
    /\ UNCHANGED cmd_vars
    /\ UNCHANGED <<flat, tree, sink, http>>
    /\ UNCHANGED <<pii, celery, resolve, conn, workers, inserts>>

(* ------------------------------ tasks.py ------------------------------- *)
\* One run of a task: the sink class it is about, the object it is given,
\* what Sink.is_enabled() answers, whether the sink was constructed and
\* whether dump was called.
TaskRun(task_name, sink_name, object_id, is_enabled, constructed, dumped) ==
    [task |-> task_name, sink |-> sink_name, object_id |-> object_id,
     is_enabled |-> is_enabled, constructed |-> constructed,
     dumped |-> dumped]

\* the sink classes dump_data_to_clickhouse is dispatched for
SinkNames == {"UserProfileSink", "ExternalIdSink"}

\* tasks.py 19-33: the body runs under "if CourseOverviewSink.is_enabled()".
task_dump_course_to_clickhouse ==
    /\ Len(celery) < MaxTasks
    /\ \E course_key \in Courses, is_enabled \in BOOLEAN :
          celery' = Append(celery,
                           TaskRun("dump_course_to_clickhouse",
                                   "CourseOverviewSink", course_key,
                                   is_enabled, is_enabled, is_enabled))
    /\ UNCHANGED world_vars
    /\ UNCHANGED cmd_vars
    /\ UNCHANGED <<flat, tree, sink, http>>
    /\ UNCHANGED <<retire, pii, resolve, conn, workers, inserts>>

\* tasks.py 36-51: the body runs under "if UserProfileSink.is_enabled()".
task_dump_user_profile_to_clickhouse ==
    /\ Len(celery) < MaxTasks
    /\ \E user_profile_id \in 1..NumObjects, is_enabled \in BOOLEAN :
          celery' = Append(celery,
                           TaskRun("dump_user_profile_to_clickhouse",
                                   "UserProfileSink", IntKey(user_profile_id),
                                   is_enabled, is_enabled, is_enabled))
    /\ UNCHANGED world_vars
    /\ UNCHANGED cmd_vars
    /\ UNCHANGED <<flat, tree, sink, http>>
    /\ UNCHANGED <<retire, pii, resolve, conn, workers, inserts>>

\* tasks.py 54-71: the sink class is looked up by name, constructed, and
\* its dump is called; is_enabled() is not asked.
task_dump_data_to_clickhouse ==
    /\ Len(celery) < MaxTasks
    /\ \E sink_name \in SinkNames, object_id \in 1..NumObjects,
          is_enabled \in BOOLEAN :
          celery' = Append(celery,
                           TaskRun("dump_data_to_clickhouse", sink_name,
                                   IntKey(object_id), is_enabled, TRUE, TRUE))
    /\ UNCHANGED world_vars
    /\ UNCHANGED cmd_vars
    /\ UNCHANGED <<flat, tree, sink, http>>
    /\ UNCHANGED <<retire, pii, resolve, conn, workers, inserts>>

(* ------------------ get_model and the model sink's use ----------------- *)
\* What EVENT_SINK_CLICKHOUSE_MODEL_CONFIG holds for the sink's model
\* setting: no entry (config = FALSE), or an entry whose module is unset
\* (""), cannot be imported, or is importable, and whose model name is unset
\* (""), is not an attribute of the module, or is one.
ModelConfigs ==
    [config : BOOLEAN,
     module : {"", "non_existent_module", "models"},
     model : {"", "NonExistentModel", "Model"}]

\* what get_model did: the model it returned and the log.error calls
Resolved(model, errors) == [model |-> model, errors |-> errors]

\* utils.get_model: every failure is logged and answered with None
get_model(model_config) ==
    IF ~model_config.config THEN Resolved(None, 1)
    ELSE IF model_config.module = "" THEN Resolved(None, 1)
    ELSE IF model_config.model = "" THEN Resolved(None, 1)
    ELSE IF model_config.module = "non_existent_module"
         THEN Resolved(None, 1)
    ELSE IF model_config.model = "NonExistentModel" THEN Resolved(None, 1)
    ELSE Resolved(Some(model_config.model), 0)

\* How an operation of the sink ends: the log.error calls made, the
\* exception that left it ("" when it returned), whether it asked for the
\* model.
Operation(name, needs_model, errors, raised) ==
    [op |-> name, needs_model |-> needs_model, errors |-> errors,
     raised |-> raised]

\* self.get_model().objects: an attribute of None is an AttributeError
objects(resolved) == IF resolved.model = None THEN "AttributeError" ELSE ""

\* ModelBaseSink.get_model
sink_get_model(model_config) ==
    Operation("get_model", TRUE, get_model(model_config).errors, "")

\* ModelBaseSink.get_queryset: self.get_model().objects.all()
sink_get_queryset(model_config) ==
    LET resolved == get_model(model_config)
    IN  Operation("get_queryset", TRUE, resolved.errors, objects(resolved))

\* ModelBaseSink.get_object: self.get_model().objects.get(id=item_id)
sink_get_object(model_config) ==
    LET resolved == get_model(model_config)
    IN  Operation("get_object", TRUE, resolved.errors, objects(resolved))

\* ModelBaseSink.fetch_target_items: the queryset is read when no ids are
\* given
sink_fetch_target_items(model_config, ids) ==
    IF ids # <<>> THEN Operation("fetch_target_items", FALSE, 0, "")
    ELSE [sink_get_queryset(model_config) EXCEPT !.op = "fetch_target_items"]

\* ModelBaseSink.dump: get_object is called when many is false
sink_dump(model_config, many) ==
    IF many THEN Operation("dump", FALSE, 0, "")
    ELSE [sink_get_object(model_config) EXCEPT !.op = "dump"]

\* the sink's model setting is configured in any way
InitResolve ==
    \E model_config \in ModelConfigs :
        resolve = [model_config |-> model_config, calls |-> <<>>]

\* the next operation is recorded
resolve_call(operation) ==
    /\ Len(resolve.calls) < MaxOps
    /\ resolve' = [resolve EXCEPT !.calls = Append(@, operation)]
    /\ UNCHANGED world_vars
    /\ UNCHANGED cmd_vars
    /\ UNCHANGED <<flat, tree, sink, http>>
    /\ UNCHANGED <<retire, pii, celery, conn, workers, inserts>>

(* --------------------------- BaseSink.__init__ ------------------------- *)
\* settings.EVENT_SINK_CLICKHOUSE_BACKEND_CONFIG
EVENT_SINK_CLICKHOUSE_BACKEND_CONFIG ==
    [url |-> "http://clickhouse:8123", username |-> "ch_cms",
     password |-> "TYreGozgtDG3vkoWPUHVVM6q", database |-> "event_sink",
     timeout_secs |-> "5"]

\* the keys of the connection settings
ConnectionKeys == DOMAIN EVENT_SINK_CLICKHOUSE_BACKEND_CONFIG

\* the values an override gives a key: a value, or an empty one
OverrideValues == {"override", ""}

\* the connection_overrides argument: None, or a mapping of some of the keys
ConnectionOverrides ==
    {None} \cup {Some(m) : m \in UNION {[keys -> OverrideValues] :
                                          keys \in SUBSET ConnectionKeys}}

\* "if connection_overrides:": None and the empty mapping are falsy
overrides_given(connection_overrides) ==
    connection_overrides # None /\ DOMAIN Val(connection_overrides) # {}

\* Mutant: an override's value replaces the base value only when it is
\* truthy.
get_truthy(mapping, key, default) ==
    IF key \in DOMAIN mapping /\ mapping[key] # "" THEN mapping[key]
    ELSE default

\* dict.get(key, default)
get(mapping, key, default) ==
    IF key \in DOMAIN mapping THEN mapping[key] ELSE default

\* Lines 33-53: the settings are read, then each is replaced by the
\* override's entry when overrides are given.
effective_connection(connection_overrides) ==
    LET base == EVENT_SINK_CLICKHOUSE_BACKEND_CONFIG
    IN  IF overrides_given(connection_overrides)
        THEN [key \in ConnectionKeys |->
                 get(Val(connection_overrides), key, base[key])]
        ELSE base

\* a sink is about to be constructed with any overrides
InitConnection ==
    \E connection_overrides \in ConnectionOverrides :
        conn = [IdleConn EXCEPT !.pc = "called",
                                !.connection_overrides = connection_overrides]

\* BaseSink.__init__
__init__ ==
    /\ conn.pc = "called"
    /\ conn' = [conn EXCEPT
                  !.pc = "constructed",
                  !.effective =
                      Some(effective_connection(conn.connection_overrides))]
    /\ UNCHANGED world_vars
    /\ UNCHANGED cmd_vars
    /\ UNCHANGED <<flat, tree, sink, http>>
    /\ UNCHANGED <<retire, pii, celery, resolve, workers, inserts>>

(* ------------- two workers on one course: check, then dump ------------- *)
\* the two workers
Workers == {1, 2}

\* Mutant: the dump id is the reading of the clock, not a fresh value.
uuid4_from_clock == now

\* uuid.uuid4(): a value no earlier call returned
uuid4 == next_dump_id

\* Each worker is given a course; a course has been published or not; the
\* remote tables are empty.
InitRace ==
    /\ \E course_keys \in [Workers -> Courses] :
          workers = [w \in Workers |->
                        [IdleWorker EXCEPT !.pc = "called",
                                           !.course_key = course_keys[w]]]
    /\ modified \in [Courses -> {None, Some(1)}]
    /\ now = 1
    /\ ch_overviews = {}
    /\ ch_blocks = {}
    /\ ch_relationships = {}
    /\ queue = <<>>
    /\ task = IdleTask
    /\ next_dump_id = 1
    /\ dumps = [d \in 1..MaxDumps |-> NoDump]
    /\ failed_dump = [c \in Courses |-> "none"]

\* should_dump_course, asked by worker w: it reads the remote and the
\* CourseOverview as they are now; nothing is written and no lock is taken.
worker_should_dump_course(w) ==
    /\ workers[w].pc = "called"
    /\ LET outcome == should_dump_course(workers[w].course_key)
       IN  workers' = [workers EXCEPT
                         ![w].pc = IF outcome.raised THEN "raised"
                                   ELSE IF outcome.needs_dump THEN "serialize"
                                   ELSE "skipped",
                         ![w].needs_dump = ~outcome.raised /\ outcome.needs_dump]
    /\ UNCHANGED world_vars
    /\ UNCHANGED cmd_vars
    /\ UNCHANGED <<flat, tree, sink, http>>
    /\ UNCHANGED <<retire, pii, celery, resolve, conn, inserts>>

\* serialize_course, lines 189-190, in worker w: the dump id and the dump
\* timestamp of this dump are drawn.
worker_serialize_course(w) ==
    /\ workers[w].pc = "serialize"
    /\ workers' = [workers EXCEPT ![w].pc = "overview",
                                  ![w].dump_id = uuid4,
                                  ![w].dump_timestamp = Str(now)]
    /\ next_dump_id' = next_dump_id + 1
    /\ UNCHANGED <<now, modified, ch_overviews, ch_blocks, ch_relationships,
                   queue, task, dumps, failed_dump, enabled>>
    /\ UNCHANGED cmd_vars
    /\ UNCHANGED <<flat, tree, sink, http>>
    /\ UNCHANGED <<retire, pii, celery, resolve, conn, inserts>>

\* The next insert of worker w's dump; ok = FALSE: the transport raises and
\* the dump ends.
worker_send(w, ok) ==
    /\ workers[w].pc \in {"overview", "blocks", "relationships"}
    /\ LET table == workers[w].pc
       IN  /\ workers' = [workers EXCEPT
                            ![w].sends = Append(@, [table |-> table, ok |-> ok]),
                            ![w].pc = IF ~ok THEN "failed"
                                      ELSE IF NextInsert(table) = "idle"
                                      THEN "completed" ELSE NextInsert(table)]
           /\ ch_overviews' = IF ok /\ table = "overview"
                              THEN ch_overviews \cup {Row(workers[w])}
                              ELSE ch_overviews
           /\ ch_blocks' = IF ok /\ table = "blocks"
                           THEN ch_blocks \cup {Row(workers[w])} ELSE ch_blocks
           /\ ch_relationships' = IF ok /\ table = "relationships"
                                  THEN ch_relationships \cup {Row(workers[w])}
                                  ELSE ch_relationships
    /\ UNCHANGED <<now, modified, queue, task, next_dump_id, dumps,
                   failed_dump, enabled>>
    /\ UNCHANGED cmd_vars
    /\ UNCHANGED <<flat, tree, sink, http>>
    /\ UNCHANGED <<retire, pii, celery, resolve, conn, inserts>>

(* ------------- the course sink's insert requests, after serialize ------ *)
\* The request _send_course_overview, _send_xblocks or _send_relationships
\* builds: one CSV row for the overview, one per block, one per
\* relationship, and the expected row count each passes.
course_insert(table, serialized_overview, serialized_xblocks, relations) ==
    CASE table = "overview" ->
           InsertRequest("course_overviews", <<serialized_overview>>, 1)
      [] table = "blocks" ->
           InsertRequest("course_blocks",
                         [i \in DOMAIN serialized_xblocks |->
                             serialized_xblocks[i]],
                         Len(serialized_xblocks))
      [] table = "relationships" ->
           InsertRequest("course_relationships",
                         [i \in DOMAIN relations |-> relations[i]],
                         Len(relations))

\* the insert that follows serialize_course, or a successful insert
InsertAfter(pc) ==
    CASE pc = "returned" -> "overview"
      [] pc = "sent overview" -> NextInsert("overview")
      [] pc = "sent blocks" -> NextInsert("blocks")

\* dump, lines 320-322: the next of the three inserts of the serialized
\* course; ok = FALSE: the transport raises and dump re-raises.
course_send(ok) ==
    /\ flat.pc \in {"returned", "sent overview", "sent blocks"}
    /\ LET table == InsertAfter(flat.pc)
       IN  /\ inserts' = Append(inserts,
                                course_insert(table, Val(flat.overview),
                                              flat.nodes, flat.relationships))
           /\ flat' = [flat EXCEPT
                         !.pc = IF ~ok THEN "raised"
                                ELSE IF table = "overview" THEN "sent overview"
                                ELSE IF table = "blocks" THEN "sent blocks"
                                ELSE "sent relationships"]
    /\ UNCHANGED world_vars
    /\ UNCHANGED cmd_vars
    /\ UNCHANGED <<tree, sink, http>>
    /\ UNCHANGED <<retire, pii, celery, resolve, conn, workers>>

(* --------------------------- specifications ---------------------------- *)
\* The course sink in its environment: the clock, publishes, the worker's
\* dumps, and the course command run without options.
NextCourses ==
    \/ Tick
    \/ \E c \in Courses : receive_course_publish(c)
    \/ dump_course_to_clickhouse
    \/ _send_course_overview
    \/ _send_xblocks
    \/ _send_relationships
    \/ dump_courses_to_clickhouse_default
    \/ dump_target_courses_to_clickhouse
    \/ courses_return
    \/ command_exit

Spec == Init /\ [][NextCourses]_vars

\* The two management commands under every option combination; the worker
\* consumes the tasks the course command dispatches.
NextCommands ==
    \/ dump_courses_to_clickhouse
    \/ dump_target_courses_to_clickhouse
    \/ courses_return
    \/ dump_data_to_clickhouse
    \/ dump_target_objects_to_clickhouse
    \/ objects_return
    \/ dump_course_to_clickhouse_disabled
    \/ command_exit

SpecCommands == InitCommands /\ [][NextCommands]_vars

\* One serialize_course call on every list of blocks, the clock running.
NextFlatten ==
    \/ Tick
    \/ serialize_course_start
    \/ serialize_course_blocks
    \/ serialize_course_return

InitSpecFlatten ==
    /\ InitWorld /\ InitCmd /\ enabled = TRUE
    /\ InitFlatten /\ tree = IdleTree /\ sink = IdleSink /\ http = IdleHttp
    /\ InitAux

SpecFlatten == InitSpecFlatten /\ [][NextFlatten]_vars

\* The coordinate walk on every list of block types.
NextTree ==
    \/ flatten_visit_block
    \/ flatten_return

InitSpecTree ==
    /\ InitWorld /\ InitCmd /\ enabled = TRUE
    /\ flat = IdleFlat /\ InitTree /\ sink = IdleSink /\ http = IdleHttp
    /\ InitAux

SpecTree == InitSpecTree /\ [][NextTree]_vars

\* Transport calls with every expected count and every response.
NextTransport == transport_request

InitSpecTransport == InitWorld /\ InitCmd /\ InitSer /\ enabled = TRUE

SpecTransport == InitSpecTransport /\ [][NextTransport]_vars

\* One ModelBaseSink.dump call, the clock running.
NextSink ==
    \/ Tick
    \/ serialize_item
    \/ send_item_and_log
    \/ dump_nested

InitSpecSink ==
    /\ InitWorld /\ InitCmd /\ enabled = TRUE
    /\ flat = IdleFlat /\ tree = IdleTree /\ InitSink /\ http = IdleHttp
    /\ InitAux

SpecSink == InitSpecSink /\ [][NextSink]_vars

\* The retirement sink on every list of users, run up to MaxRuns times.
NextRetire ==
    \/ retire_send_item
    \/ retire_delete
    \/ retire_again

InitSpecRetire ==
    /\ InitWorld /\ InitCmd /\ enabled = TRUE
    /\ flat = IdleFlat /\ tree = IdleTree /\ sink = IdleSink /\ http = IdleHttp
    /\ InitRetire
    /\ celery = <<>> /\ resolve = IdleResolve
    /\ conn = IdleConn /\ workers = <<>> /\ inserts = <<>>

SpecRetire == InitSpecRetire /\ [][NextRetire]_vars

\* The three tasks, run in any order with the sinks enabled or not.
NextTasks ==
    \/ task_dump_course_to_clickhouse
    \/ task_dump_user_profile_to_clickhouse
    \/ task_dump_data_to_clickhouse

InitSpecTasks == InitWorld /\ InitCmd /\ InitSer /\ enabled = TRUE

SpecTasks == InitSpecTasks /\ [][NextTasks]_vars

\* The operations of a model sink under every model configuration.
NextResolve ==
    \/ resolve_call(sink_get_model(resolve.model_config))
    \/ resolve_call(sink_get_queryset(resolve.model_config))
    \/ resolve_call(sink_get_object(resolve.model_config))
    \/ \E ids \in ObjectIdLists :
          resolve_call(sink_fetch_target_items(resolve.model_config, ids))
    \/ \E many \in BOOLEAN :
          resolve_call(sink_dump(resolve.model_config, many))

InitSpecResolve ==
    /\ InitWorld /\ InitCmd /\ enabled = TRUE
    /\ flat = IdleFlat /\ tree = IdleTree /\ sink = IdleSink /\ http = IdleHttp
    /\ retire = IdleRetire /\ pii = <<>> /\ celery = <<>>
    /\ InitResolve
    /\ conn = IdleConn /\ workers = <<>> /\ inserts = <<>>

SpecResolve == InitSpecResolve /\ [][NextResolve]_vars

\* The construction of a sink under every override mapping.
NextConnection == __init__

InitSpecConnection ==
    /\ InitWorld /\ InitCmd /\ enabled = TRUE
    /\ flat = IdleFlat /\ tree = IdleTree /\ sink = IdleSink /\ http = IdleHttp
    /\ retire = IdleRetire /\ pii = <<>> /\ celery = <<>>
    /\ resolve = IdleResolve
    /\ InitConnection
    /\ workers = <<>> /\ inserts = <<>>

SpecConnection == InitSpecConnection /\ [][NextConnection]_vars

\* Two workers, each checking and then dumping its course, in any
\* interleaving, the clock running.
NextRace ==
    \/ Tick
    \/ \E w \in Workers : worker_should_dump_course(w)
    \/ \E w \in Workers : worker_serialize_course(w)
    \/ \E w \in Workers, ok \in BOOLEAN : worker_send(w, ok)

InitSpecRace ==
    /\ InitRace /\ InitCmd /\ enabled = TRUE
    /\ flat = IdleFlat /\ tree = IdleTree /\ sink = IdleSink /\ http = IdleHttp
    /\ retire = IdleRetire /\ pii = <<>> /\ celery = <<>>
    /\ resolve = IdleResolve /\ conn = IdleConn /\ inserts = <<>>

SpecRace == InitSpecRace /\ [][NextRace]_vars

\* The insert requests of both sinks: a course dump on every list of
\* blocks, or a model sink's dump of one or many records.
NextInsertRequests ==
    \/ serialize_course_start
    \/ serialize_course_blocks
    \/ serialize_course_return
    \/ \E ok \in BOOLEAN : course_send(ok)
    \/ serialize_item
    \/ send_item_and_log

InitSpecInsert ==
    /\ InitWorld /\ InitCmd /\ enabled = TRUE
    /\ tree = IdleTree /\ http = IdleHttp
    /\ InitAux
    /\ \/ InitFlatten /\ sink = IdleSink
       \/ flat = IdleFlat /\ InitSink

SpecInsert == InitSpecInsert /\ [][NextInsertRequests]_vars

(* ============================== claims ================================ *)
Checked == last_check # None
Check == Val(last_check)

\* C1: in should_dump_course, when the last-dumped and the last-modified
\* timestamps are both present, the course is reported as needing a dump
\* exactly when last-modified is strictly later than last-dumped.
C1_StrictlyLaterIffStale ==
    (Checked /\ Check.body # None /\ Check.modified # None) =>
        /\ ~Check.outcome.raised
        /\ Check.outcome.needs_dump
             <=> (Val(Check.modified) > fromisoformat(Val(Check.body)))

\* C2: an empty body of the last-dump lookup makes the lookup return None and
\* the staleness check return (True, "Course is not present in ClickHouse")
\* without reading the local last-modified timestamp.
C2_EmptyBodyMeansNotPresent ==
    (Checked /\ Check.body = None) =>
        /\ Check.outcome.last_dump = None
        /\ ~Check.outcome.raised
        /\ Check.outcome.needs_dump
        /\ Check.outcome.reason = "Course is not present in ClickHouse"
        /\ ~Check.outcome.read_published
        /\ yields # <<>>
        /\ yields[Len(yields)] =
             Yield(Check.course_key, TRUE, "Course is not present in ClickHouse")

\* C2 witness: the check ran on a course that has a last-modified timestamp
\* and no row in the remote store.
C2_Witness ==
    Checked /\ Check.body = None /\ Check.modified # None

\* C3: with a remote last-dumped timestamp and no local last-modified
\* timestamp the staleness check returns (False, "No last modified date in
\* CourseOverview") and the timestamp comparison is not evaluated.
C3_NoModifiedDateSkips ==
    (Checked /\ Check.body # None /\ Check.modified = None) =>
        /\ ~Check.outcome.raised
        /\ ~Check.outcome.needs_dump
        /\ Check.outcome.reason = "No last modified date in CourseOverview"
        /\ ~Check.outcome.compared
        /\ yields # <<>>
        /\ ~yields[Len(yields)].should_be_dumped

\* C3 witness: the check ran on a dumped course without last-modified date.
C3_Witness ==
    Checked /\ Check.body # None /\ Check.modified = None

\* C4: after a dump of a stale course failed at one of its inserts, a later
\* staleness check of that course, with no publish in between, still reports
\* the course as needing a dump.
C4_FailedDumpStaysStale ==
    (Checked /\ Check.after_failure # "none") =>
        (~Check.outcome.raised /\ Check.outcome.needs_dump)

InsertOrder == <<"overview", "blocks", "relationships">>
Table(name) ==
    CASE name = "overview" -> ch_overviews
      [] name = "blocks" -> ch_blocks
      [] name = "relationships" -> ch_relationships
RowsOf(d, name) == {r \in Table(name) : r.dump_id = d}

RECURSIVE Concat(_)
Concat(batches) ==
    IF batches = <<>> THEN <<>> ELSE Head(batches) \o Concat(Tail(batches))

\* C6: when dump_target_objects_to_clickhouse returns, every object marked
\* for submission has been passed to sink.dump in exactly one batch.
C6_EveryMarkedObjectDumped ==
    (cmd.kind = "data" /\ cmd.pc = "done") =>
        Concat(sink_dumps) = cmd.marked

\* C7: with limit = L >= 1 neither loop marks more than L records.
C7_LimitBoundsMarked ==
    (cmd.kind \in {"courses", "data"} /\ cmd.limit # None
       /\ cmd.pc \in {"loop", "done"}) =>
        Len(cmd.marked) <= Val(cmd.limit)

\* the candidate's id appears in the skip list the command was given
InSkipList(key) ==
    IF cmd.kind = "courses" THEN key \in cmd.skip
    ELSE \E i \in 1..Len(cmd.skip) : cmd.skip[i].v = key.v

IsSkipReason(reason) ==
    reason \in {"Course is explicitly skipped", "is explicitly skipped"}

C9_ForceYieldsAll ==
    (cmd.force /\ cmd.pc \in {"loop", "done", "crashed"}) =>
        /\ lookups = <<>>
        /\ Len(yields) <= Len(cmd.item_keys)
        /\ \A i \in 1..Len(yields) :
              /\ yields[i].key = cmd.item_keys[i]
              /\ ~InSkipList(cmd.item_keys[i]) =>
                    /\ yields[i].should_be_dumped
                    /\ yields[i].reason = "Force is set"
        /\ (cmd.pc = "done" => Len(yields) = Len(cmd.item_keys))

\* C9 witness: a forced run that ended after yielding two candidates as
\* 'Force is set'.
C9_Witness ==
    /\ cmd.force /\ cmd.pc = "done" /\ Len(yields) >= 2
    /\ \A i \in 1..Len(yields) : yields[i].reason = "Force is set"

\* the options the command was started with are an invalid combination
InvalidOptions ==
    /\ cmd.kind \in {"courses", "data"}
    /\ \/ cmd.limit # None /\ Val(cmd.limit) < 1
       \/ cmd.limit # None /\ cmd.force
       \/ cmd.kind = "data" /\ cmd.object = None

\* C10: a command started with an invalid option combination ends with a
\* CommandError, and has enumerated no record, dispatched no task and made
\* no remote request.
C10_InvalidOptionsFailFirst ==
    InvalidOptions =>
        /\ cmd.pc = "error"
        /\ cmd.message # ""
        /\ cmd.item_keys = <<>> /\ yields = <<>>
        /\ cmd.marked = <<>> /\ cmd.submitted = <<>>
        /\ lookups = <<>> /\ sink_dumps = <<>>

\* C10 witness: limit given together with force was rejected.
C10_Witness ==
    /\ cmd.pc = "error" /\ cmd.force /\ cmd.limit # None /\ Val(cmd.limit) >= 1

(* ---------------- claims about serialize_course (SpecFlatten) ---------- *)
\* every row the call has produced so far
FlatRows ==
    {flat.overview[i] : i \in 1..Len(flat.overview)}
      \cup {flat.location_to_node[i].value : i \in 1..Len(flat.location_to_node)}
      \cup {flat.nodes[i] : i \in 1..Len(flat.nodes)}
      \cup {flat.relationships[i] : i \in 1..Len(flat.relationships)}

\* C11: the overview row, every block row and every relationship row of one
\* serialize_course call carry the same dump_id and the same
\* time_last_dumped, which are drawn exactly once, when the call starts.
C11_RowsShareDumpIds ==
    flat.pc \in {"blocks", "relationships", "returned"} =>
        /\ flat.dump_id = flat.id_before
        /\ flat.dump_timestamp = Str(flat.started_at)
        /\ next_dump_id = flat.id_before + 1
        /\ \A r \in FlatRows :
              /\ r.dump_id = flat.dump_id
              /\ r.time_last_dumped = flat.dump_timestamp

\* C11 witness: a call returned block and relationship rows while the clock
\* moved on after its start.
C11_Witness ==
    /\ flat.pc = "returned"
    /\ flat.overview # None
    /\ Len(flat.nodes) >= 2
    /\ Len(flat.relationships) >= 1
    /\ now > flat.started_at

\* C14: for every list of blocks, also one in which two blocks share a
\* location once branch and version are stripped, the block rows come out in
\* traversal order with order values strictly increasing from 1.
C14_BlockRowsInTraversalOrder ==
    flat.pc = "returned" =>
        /\ Len(flat.nodes) > 0 => flat.nodes[1].order = 1
        /\ \A i, j \in 1..Len(flat.nodes) :
              i < j => flat.nodes[i].order < flat.nodes[j].order
        /\ \A i \in 1..Len(flat.nodes) :
              flat.nodes[i].location = flat.items[flat.nodes[i].order].location

\* keys of the lookup: the locations of the items without branch and version
FlatKeys ==
    {strip_branch_and_version(flat.items[i].location) : i \in 1..Len(flat.items)}

\* the (item, child) pairs of the course whose child is in the lookup
FlatEdges ==
    {<<i, c>> \in (1..Len(flat.items)) \X (1..2) :
        /\ c <= Len(flat.items[i].children)
        /\ strip_branch_and_version(flat.items[i].children[c]) \in FlatKeys}

\* the (item, child) pairs whose child is not in the lookup
FlatDropped ==
    {<<i, c>> \in (1..Len(flat.items)) \X (1..2) :
        /\ c <= Len(flat.items[i].children)
        /\ strip_branch_and_version(flat.items[i].children[c]) \notin FlatKeys}

\* C15: both locations of every relationship row are locations of block rows
\* of the same pass; a child that is not in the lookup yields no row (and no
\* error), so there is one row per edge whose child is in the lookup.
C15_RelationshipEndpointsAreBlocks ==
    flat.pc = "returned" =>
        /\ \A k \in 1..Len(flat.relationships) :
              /\ \E n \in 1..Len(flat.nodes) :
                    flat.nodes[n].location = flat.relationships[k].parent_location
              /\ \E n \in 1..Len(flat.nodes) :
                    flat.nodes[n].location = flat.relationships[k].child_location
        /\ Len(flat.relationships) = Cardinality(FlatEdges)

\* C15 witness: a pass returned a relationship row and dropped a child that
\* is not among the blocks.
C15_Witness ==
    /\ flat.pc = "returned"
    /\ Len(flat.relationships) >= 1
    /\ FlatDropped # {}

\* C17: a course for which the module store returns no blocks yields an empty
\* block list and an empty relationship list.
C17_ZeroBlocksYieldNothing ==
    (flat.pc = "returned" /\ flat.items = <<>>) =>
        /\ flat.nodes = <<>>
        /\ flat.relationships = <<>>

\* C17 witness: serialize_course returned for a course without blocks.
C17_Witness ==
    flat.pc = "returned" /\ flat.items = <<>> /\ flat.overview # None

(* --------------- claims about the coordinate walk (SpecTree) ----------- *)
\* position of the last block of one of the given types among the first k
\* blocks, 0 when there is none
LastOf(k, types) ==
    LET at == {j \in 1..k : tree.types[j] \in types}
    IN  IF at = {} THEN 0 ELSE CHOOSE j \in at : \A q \in at : q <= j

\* number of blocks of the given type at the positions after from, up to k
CountOf(from, k, type) ==
    Cardinality({j \in (from + 1)..k : tree.types[j] = type})

Serialized == sink.pc \in {"related", "done"}

\* C12: in a dump with many = True the batch identifiers are generated once
\* for the call: all rows serialized and sent in it carry one dump_id and one
\* time_last_dumped.
C12_ManyRowsShareDumpIds ==
    (sink.many /\ Serialized) =>
        \A i, j \in 1..Len(sink.rows) :
            /\ sink.rows[i].dump_id = sink.rows[j].dump_id
            /\ sink.rows[i].time_last_dumped = sink.rows[j].time_last_dumped

\* the parent's send returned without error
ParentSent == http.last # None /\ Val(http.last).outcome.raised = ""

\* C13: dump_related is invoked only after the parent's send has returned
\* without error, once per serialized parent row and nested sink, rows in
\* order, with that row and that row's dump_id and time_last_dumped; when the
\* parent's send raises no dump_related is invoked.
C13_NestedAfterParentSend ==
    /\ sink.related # <<>> => ParentSent
    /\ (http.last # None /\ Val(http.last).outcome.raised # "") =>
          sink.related = <<>>
    /\ Len(sink.related) <= Len(sink.rows) * sink.nested
    /\ \A k \in 1..Len(sink.related) :
          LET row == ((k - 1) \div sink.nested) + 1
              call == sink.related[k]
          IN  /\ call.nested_sink = ((k - 1) % sink.nested) + 1
              /\ call.item = sink.rows[row]
              /\ call.dump_id = sink.rows[row].dump_id
              /\ call.time_last_dumped = sink.rows[row].time_last_dumped
    /\ sink.pc = "done" =>
          /\ ParentSent
          /\ Len(sink.related) = Len(sink.rows) * sink.nested

\* C13 witness: a dump of two rows with two nested sinks completed, the rows
\* carrying different identifiers.
C13_Witness ==
    /\ sink.pc = "done"
    /\ Len(sink.rows) = 2
    /\ sink.nested = 2
    /\ Len(sink.related) = 4
    /\ sink.rows[1].dump_id # sink.rows[2].dump_id

(* ------------- claims about the transport (SpecTransport) -------------- *)
Called == http.last # None
TheCall == Val(http.last)

\* the response is a success whose summary names written_rows
Acknowledged(c) ==
    /\ c.response.answered
    /\ ~raise_for_status(c.response)
    /\ c.response.summary = "written_rows"

\* C18: whenever an expected row count is supplied and the summary of the
\* response acknowledges a different written_rows, exactly one error is
\* logged and the response is returned, no exception raised.
C18_MismatchLogsOneError ==
    (Called /\ TheCall.expected_insert_rows # None /\ Acknowledged(TheCall)
       /\ TheCall.response.written_rows # Val(TheCall.expected_insert_rows)) =>
        /\ TheCall.outcome.errors = 1
        /\ TheCall.outcome.returned
        /\ TheCall.outcome.raised = ""

\* C19: when an expected row count is supplied and a successful response has
\* no X-ClickHouse-Summary header, or a summary without written_rows, the
\* check is skipped: nothing is logged, nothing raised, the response returned.
C19_NoAcknowledgementSkipsCheck ==
    (Called /\ TheCall.expected_insert_rows # None
       /\ TheCall.response.answered /\ ~raise_for_status(TheCall.response)
       /\ TheCall.response.summary \in {"absent", "no written_rows"}) =>
        /\ TheCall.outcome.errors = 0
        /\ TheCall.outcome.raised = ""
        /\ TheCall.outcome.returned

\* C19 witness: a call that expected rows got a success without the header,
\* after a call whose response had the header.
C19_Witness ==
    /\ Called
    /\ http.calls = 2
    /\ TheCall.expected_insert_rows # None
    /\ Val(TheCall.expected_insert_rows) >= 1
    /\ TheCall.response.answered /\ TheCall.response.status_code = 200
    /\ TheCall.response.summary = "absent"

NotMarked == SelectSeq(yields, LAMBDA y : ~y.should_be_dumped)

\* C25: the submitted list returned by dump_target_objects_to_clickhouse has
\* one entry per object marked for submission, and the skipped list holds
\* exactly the objects not marked.
C25_SubmittedListMatchesMarked ==
    (cmd.kind = "data" /\ cmd.pc = "done") =>
        /\ Len(cmd.submitted) = Len(cmd.marked)
        /\ \A i \in 1..Len(cmd.marked) :
              Cardinality({j \in 1..Len(cmd.submitted) :
                              str(cmd.submitted[j]) = str(cmd.marked[i])}) = 1
        /\ Len(cmd.skipped) = Len(NotMarked)
        /\ \A i \in 1..Len(cmd.skipped) : cmd.skipped[i] = NotMarked[i].key

RequestIds(k) == split(retire.requests[k].user_ids_str, ",")

\* C21: the delete predicate names the distinct user ids of the call, each
\* once, in string order, whatever the order and the repeats of the input.
C21_DeletePredicateIsCanonical ==
    \A k \in DOMAIN retire.requests :
        LET ids == RequestIds(k)
        IN  /\ Range(ids) = {str_user_id(retire.users[i].user_id) :
                                i \in DOMAIN retire.users}
            /\ \A i, j \in DOMAIN ids : i < j => str_lt(ids[i], ids[j])

\* C21 witness: a delete was issued for users given out of order and with a
\* repeat, two of whose ids sort differently as strings and as numbers.
C21_Witness ==
    /\ retire.requests # <<>>
    /\ Len(retire.users) = 3
    /\ retire.users[1].user_id = 2
    /\ retire.users[2].user_id = 10
    /\ retire.users[3].user_id = 2

\* C22: a delete of the second run that the remote answers with 200 raises
\* nothing and logs no error, whatever row count the answer reports, and a
\* table the first run's delete was applied to is left as it was.
C22_SecondRetirementIsNoOp ==
    \A k \in DOMAIN retire.requests :
        LET r == retire.requests[k]
        IN  (r.run > 1 /\ r.applied) =>
              /\ r.raised = ""
              /\ r.errors = 0
              /\ (\E j \in 1..(k - 1) :
                     /\ retire.requests[j].table = r.table
                     /\ retire.requests[j].applied) => r.after = r.before

\* C22 witness: the first run completed and the second run completed too.
C22_Witness ==
    /\ retire.run = 2
    /\ retire.pc = "done"
    /\ Len(retire.requests) = 2 * Len(EVENT_SINK_CLICKHOUSE_PII_MODELS)
    /\ \A k \in DOMAIN retire.requests : retire.requests[k].applied

\* the requests of the current run
RunRequests == SelectSeq(retire.requests, LAMBDA r : r.run = retire.run)

\* C29: the deletes of a run go to the PII tables in the configured order,
\* one each; a delete that raises is the last of its run, and the tables
\* after it keep the users' rows.
C29_DeletesInOrderAbortOnFailure ==
    /\ Len(RunRequests) <= Len(EVENT_SINK_CLICKHOUSE_PII_MODELS)
    /\ \A k \in DOMAIN RunRequests :
          /\ RunRequests[k].table = EVENT_SINK_CLICKHOUSE_PII_MODELS[k]
          /\ RunRequests[k].raised # "" => k = Len(RunRequests)
    /\ retire.pc = "done" =>
          Len(RunRequests) = Len(EVENT_SINK_CLICKHOUSE_PII_MODELS)
    /\ (retire.pc = "raised" /\ retire.run = 1) =>
          \A k \in (Len(RunRequests) + 1)..Len(EVENT_SINK_CLICKHOUSE_PII_MODELS) :
              pii[EVENT_SINK_CLICKHOUSE_PII_MODELS[k]] = UserIds

\* C29 witness: the first table's delete raised in the first run, and the
\* second table was not touched.
C29_Witness ==
    /\ retire.run = 1
    /\ retire.pc = "raised"
    /\ Len(retire.requests) = 1
    /\ pii[EVENT_SINK_CLICKHOUSE_PII_MODELS[2]] = UserIds

(* -------------------- claims about the tasks (SpecTasks) --------------- *)
\* C23: a dump task whose sink's is_enabled() is false neither constructs
\* the sink nor calls dump.
C23_DisabledSinkIsNotDumped ==
    \A k \in DOMAIN celery :
        ~celery[k].is_enabled => ~celery[k].constructed /\ ~celery[k].dumped

(* --------------- claims about get_model (SpecResolve) ------------------ *)
\* C24: when the model setting cannot be resolved, get_model logs an error
\* and returns no model, and every sink operation that needs the model
\* returns instead of raising.
C24_UnresolvedModelIsNoOp ==
    get_model(resolve.model_config).model = None =>
        /\ get_model(resolve.model_config).errors >= 1
        /\ \A k \in DOMAIN resolve.calls :
              resolve.calls[k].needs_model =>
                 /\ resolve.calls[k].errors >= 1
                 /\ resolve.calls[k].raised = ""

(* ----------- claims about the connection settings (SpecConnection) ----- *)
\* C26: each effective connection setting is the override's value when the
\* override mapping contains its key and the base value otherwise; with no
\* override or an empty one the base configuration is left as it is.
C26_OverridesReplaceBaseByKey ==
    conn.pc = "constructed" =>
        LET effective == Val(conn.effective)
            overrides == conn.connection_overrides
        IN  /\ \A key \in ConnectionKeys :
                  IF overrides # None /\ key \in DOMAIN Val(overrides)
                  THEN effective[key] = Val(overrides)[key]
                  ELSE effective[key] =
                           EVENT_SINK_CLICKHOUSE_BACKEND_CONFIG[key]
            /\ (overrides = None \/ overrides = Some(<<>>)) =>
                  effective = EVENT_SINK_CLICKHOUSE_BACKEND_CONFIG

\* C26 witness: a sink was constructed with an override that names some of
\* the keys, one of them with an empty value, and not the others.
C26_Witness ==
    /\ conn.pc = "constructed"
    /\ conn.connection_overrides # None
    /\ DOMAIN Val(conn.connection_overrides) = {"url", "database"}
    /\ Val(conn.connection_overrides)["url"] = "override"
    /\ Val(conn.connection_overrides)["database"] = ""

(* --------------- claims about concurrent dumps (SpecRace) -------------- *)
\* rows of a course in a remote table
CourseRows(table, course_key) == {r \in table : r.course_key = course_key}

\* C27: nothing serializes two workers on one course: when both found the
\* course in need of a dump and both completed their dumps, every remote
\* table holds rows of the course under the two workers' dump ids, which
\* differ.
C27_ConcurrentDumpsBothWrite ==
    \A v, w \in Workers :
        (/\ v # w
         /\ workers # <<>>
         /\ workers[v].course_key = workers[w].course_key
         /\ workers[v].pc = "completed"
         /\ workers[w].pc = "completed") =>
            /\ workers[v].dump_id # workers[w].dump_id
            /\ \A table \in {ch_overviews, ch_blocks, ch_relationships} :
                  {r.dump_id : r \in CourseRows(table, workers[v].course_key)}
                     = {workers[v].dump_id, workers[w].dump_id}

\* C27 witness: both workers read the course as absent before either had
\* written a row, both dumped, and the remote holds the course under two
\* dump ids.
C27_Witness ==
    /\ workers # <<>>
    /\ workers[1].course_key = workers[2].course_key
    /\ workers[1].pc = "completed"
    /\ workers[2].pc = "completed"
    /\ workers[1].needs_dump /\ workers[2].needs_dump
    /\ workers[1].sends[1].table = "overview"
    /\ Cardinality({r.dump_id :
                      r \in CourseRows(ch_blocks, workers[1].course_key)}) = 2

(* ------------- claims about the insert requests (SpecInsert) ----------- *)
\* C30: the expected row count of every insert request equals the number of
\* CSV rows of its body: 1 for one record, the length of the list for many
\* records, blocks and relationships.
C30_ExpectedCountIsRowsWritten ==
    \A k \in DOMAIN inserts :
        inserts[k].expected_insert_rows = Len(inserts[k].body)

\* C30 witness: a course dump sent its three inserts: the overview as one
\* row, two blocks, and their relationships.
C30_Witness ==
    /\ Len(inserts) = 3
    /\ inserts[1].table = "course_overviews"
    /\ Len(inserts[1].body) = 1
    /\ Len(inserts[2].body) = 2
    /\ inserts[3].table = "course_relationships"
    /\ Len(inserts[3].body) >= 1

====
